---------------------------- MODULE Spec2Model ----------------------------
(***************************************************************************)
(* The knowledge store of gtaf-mcp (LightweightKnowledgeDB,                *)
(* src/src/mcpserver/facade/knowledge_db.py) as a state machine.           *)
(*                                                                         *)
(* Conventions of the model                                                *)
(*  - a Python dict is a TLA+ function with a set of strings as domain, so *)
(*    that an absent key is absent from the DOMAIN and dict.get(k, d) is   *)
(*    Get(d, k, default);                                                  *)
(*  - a Python str on which the code works character by character (a test  *)
(*    case name, an error text, a file name, a failure id) is a sequence   *)
(*    of one-character strings;                                            *)
(*  - a timestamp is the number of seconds on the wall clock; the text     *)
(*    datetime.isoformat() writes and datetime.fromisoformat() reads back  *)
(*    is order preserving and round trips for the naive local timestamps   *)
(*    the store writes, so the stored value is the clock value;            *)
(*  - the clock is read once per call and is strictly larger at every      *)
(*    call than at the call before (microsecond resolution, file I/O       *)
(*    between two reads);                                                  *)
(*  - the testcases directory is the function files: its DOMAIN is the     *)
(*    directory listing, files[f].valid says whether json.load succeeds,   *)
(*    files[f].mtime is the modification time the file system keeps;       *)
(*  - the analysis directory is the function analysis: its DOMAIN is the   *)
(*    set of the paths <<subdirectory, file name>> of the files below it,  *)
(*    the subdirectory <<>> being the analysis directory itself;           *)
(*  - inflight holds, for every process that runs save_failure step by     *)
(*    step, what the call has in memory between its load and its write.    *)
(***************************************************************************)
EXTENDS Integers, Sequences, FiniteSets, TLC

VARIABLES files, analysis, inflight, now, last, nops

vars == <<files, analysis, inflight, now, last, nops>>

(***************************************************************************)
(* Program constants                                                       *)
(***************************************************************************)
DedupWindow == 300

MaxRecent == 10

MaxNameLen == 200

(***************************************************************************)
(* Bounds of the model                                                     *)
(***************************************************************************)
MaxOps == 3

MaxLong == 12

MaxE2E == 6

MaxNotes == 13

MaxSweep == 4

MaxRace == 6

MaxStream == 9

MaxRuns == 2

(***************************************************************************)
(* Python helpers                                                          *)
(***************************************************************************)
Get(d, k, default) == IF k \in DOMAIN d THEN d[k] ELSE default

Put(d, k, v) == [x \in DOMAIN d \cup {k} |-> IF x = k THEN v ELSE d[x]]

Min(a, b) == IF a <= b THEN a ELSE b

\* seq[:n] where the code takes seq[-n:]
LastN_KeepsOldest(seq, n) == SubSeq(seq, 1, IF Len(seq) <= n THEN Len(seq) ELSE n)

\* seq[-n:]
LastN(seq, n) == SubSeq(seq, Len(seq) - Min(Len(seq), n) + 1, Len(seq))

\* seq[:n]
FirstN(seq, n) == SubSeq(seq, 1, Min(Len(seq), n))

\* seq[i] with Python's index rule: 0-based, a negative i counts from the
\* end; 0 when the index raises IndexError.
PyIndex(seq, i) ==
    IF i >= 0 /\ i < Len(seq) THEN i + 1
    ELSE IF i < 0 /\ Len(seq) + i >= 0 THEN Len(seq) + i + 1
    ELSE 0

Digits == {"0", "1", "2", "3", "4", "5", "6", "7", "8", "9"}

Letters == {"a", "b", "c", "d", "e", "f", "g", "h", "i", "j", "k", "l", "m",
            "n", "o", "p", "q", "r", "s", "t", "u", "v", "w", "x", "y", "z",
            "A", "B", "C", "D", "E", "F", "G", "H", "I", "J", "K", "L", "M",
            "N", "O", "P", "Q", "R", "S", "T", "U", "V", "W", "X", "Y", "Z"}

\* str.isalnum() on one character
isalnum(c) == c \in Letters \cup Digits

\* str.strip() on a text that holds no other whitespace than blanks
RECURSIVE strip(_)
strip(s) ==
    IF s = <<>> THEN s
    ELSE IF Head(s) = " " THEN strip(Tail(s))
    ELSE IF s[Len(s)] = " " THEN strip(SubSeq(s, 1, Len(s) - 1))
    ELSE s

(***************************************************************************)
(* Naming                                                                  *)
(***************************************************************************)
IsSafeChar(c) == isalnum(c) \/ c \in {" ", "-", "_"}

_generate_testcase_filename(test_case) ==
    LET kept     == SelectSeq(test_case, IsSafeChar)
        stripped == strip(kept)
        replaced == [i \in 1..Len(stripped) |->
                        IF stripped[i] = " " THEN "_" ELSE stripped[i]]
    IN  FirstN(replaced, MaxNameLen) \o <<".", "j", "s", "o", "n">>

\* hashlib.md5(content).hexdigest()[:12].  The digest is taken to be free of
\* collisions on the texts of the model: the digest of a text is represented
\* by the text.  What loses information is the concatenation hashed.
md5_hexdigest_12(content) == content

_generate_failure_id(test_case, error) ==
    md5_hexdigest_12(test_case \o <<":">> \o error)

(***************************************************************************)
(* Documents                                                               *)
(***************************************************************************)
EmptyShell(test_case, t) ==
    [testCase |-> test_case, created |-> t, total_failures |-> 0,
     unique_errors |-> 0, failure_history |-> <<>>]

NewOccurrence(t, error, stack) ==
    [timestamp |-> t, error |-> error, stackTrace |-> stack,
     isBug |-> "null", tester_notes |-> <<>>]

NewFailureEntry(failure_id, failure_data, error, t) ==
    [failure_id |-> failure_id,
     timestamp |-> t,
     status |-> Get(failure_data, "status", "failed"),
     filePath |-> Get(failure_data, "filePath", ""),
     failedStep |-> Get(failure_data, "failedStep", ""),
     first_seen |-> t,
     occurrence_count |-> 1,
     recent_occurrences |->
         <<NewOccurrence(t, error, Get(failure_data, "stackTrace", ""))>>]

\* LoadOrCreate that takes the stored document whatever the read does.
LoadOrCreate_ReadsAnyway(fs, testcase_file, test_case, t, rd) ==
    IF testcase_file \in DOMAIN fs /\ fs[testcase_file].valid
    THEN fs[testcase_file].json
    ELSE [testCase |-> test_case, created |-> t, total_failures |-> 0,
          unique_errors |-> 0, failure_history |-> <<>>]


\* LoadOrCreate that starts from the empty shell whatever the file holds.
LoadOrCreate_NeverLoads(fs, testcase_file, test_case, t, rd) ==
    [testCase |-> test_case, created |-> t, total_failures |-> 0,
     unique_errors |-> 0, failure_history |-> <<>>]


\* The load step of save_failure: the document read, or the empty shell when
\* the file is absent, corrupt or unreadable (rd = "error": open raises OSError).
LoadOrCreate(fs, testcase_file, test_case, t, rd) ==
    IF testcase_file \in DOMAIN fs /\ fs[testcase_file].valid /\ rd = "ok"
    THEN fs[testcase_file].json
    ELSE EmptyShell(test_case, t)

\* FindExisting that never finds the record.
FindExisting_Never(history, failure_id) == 0

\* Index of the first entry of failure_history with this failure_id, 0 if none.
FindExisting(history, failure_id) ==
    IF \E i \in 1..Len(history) : history[i].failure_id = failure_id
    THEN CHOOSE i \in 1..Len(history) :
            /\ history[i].failure_id = failure_id
            /\ \A j \in 1..(i - 1) : history[j].failure_id # failure_id
    ELSE 0

OccTimestamp(occ) == Get(occ, "timestamp", 0)

\* max(recent_occurrences, key=timestamp): the index of the first occurrence
\* whose timestamp no other exceeds.
LatestOccurrenceIndex(recent) ==
    CHOOSE i \in 1..Len(recent) :
        /\ \A j \in 1..Len(recent) : OccTimestamp(recent[j]) <= OccTimestamp(recent[i])
        /\ \A j \in 1..(i - 1) : OccTimestamp(recent[j]) < OccTimestamp(recent[i])

\* IsNewOccurrence without the window: every observation counts as new.
IsNewOccurrence_NoWindow(existing, error, stack, t) == TRUE

\* IsNewOccurrence that compares the time alone and not the stack trace.
IsNewOccurrence_TimeOnly(existing, error, stack, t) ==
    LET recent == Get(existing, "recent_occurrences", <<>>)
    IN  recent = <<>> \/ t - recent[Len(recent)].timestamp >= DedupWindow

\* IsNewOccurrence with the window anchored at last_seen, which duplicate
\* observations refresh, and not at the latest recorded occurrence.
IsNewOccurrence_LastSeen(existing, error, stack, t) ==
    LET recent == Get(existing, "recent_occurrences", <<>>)
    IN  IF recent = <<>> THEN TRUE
        ELSE LET latest == recent[LatestOccurrenceIndex(recent)]
                 time_diff == t - Get(existing, "last_seen", latest.timestamp)
             IN  ~ (/\ time_diff < DedupWindow
                    /\ Get(latest, "error", <<>>) = error
                    /\ Get(latest, "stackTrace", "") = stack)

\* The dedup window rule: is the observation a new occurrence of `existing`?
IsNewOccurrence(existing, error, stack, t) ==
    LET recent == Get(existing, "recent_occurrences", <<>>)
    IN  IF recent = <<>> THEN TRUE
        ELSE LET latest == recent[LatestOccurrenceIndex(recent)]
                 time_diff == t - latest.timestamp
             IN  ~ (/\ time_diff < DedupWindow
                    /\ Get(latest, "error", <<>>) = error
                    /\ Get(latest, "stackTrace", "") = stack)

\* MergeExisting that counts a duplicate observation as an occurrence.
MergeExisting_DuplicateCounts(existing, error, stack, t) ==
    LET counted == Put(existing, "occurrence_count",
                       Get(existing, "occurrence_count", 1) + 1)
        seen    == Put(counted, "last_seen", t)
    IN  IF IsNewOccurrence(existing, error, stack, t)
        THEN Put(seen, "recent_occurrences",
                 LastN(Append(seen.recent_occurrences,
                              NewOccurrence(t, error, stack)), MaxRecent))
        ELSE seen


MergeExisting(existing, error, stack, t) ==
    IF IsNewOccurrence(existing, error, stack, t)
    THEN LET counted == Put(existing, "occurrence_count",
                            Get(existing, "occurrence_count", 1) + 1)
             seen    == Put(counted, "last_seen", t)
             grown   == Append(seen.recent_occurrences,
                               NewOccurrence(t, error, stack))
         IN  Put(seen, "recent_occurrences", LastN(grown, MaxRecent))
    ELSE Put(existing, "last_seen", t)

RecencyKey(x) == Get(x, "last_seen", Get(x, "first_seen", 0))

\* insert x behind every entry whose key is not smaller: with the entries
\* inserted from left to right this is list.sort(key, reverse=True), stable
RECURSIVE InsertByRecency(_, _)
InsertByRecency(x, sorted) ==
    IF sorted = <<>> THEN <<x>>
    ELSE IF RecencyKey(Head(sorted)) >= RecencyKey(x)
         THEN <<Head(sorted)>> \o InsertByRecency(x, Tail(sorted))
         ELSE <<x>> \o sorted

\* no sort at all
SortByRecency_None(history) == history

RECURSIVE SortByRecency(_)
SortByRecency(history) ==
    IF history = <<>> THEN <<>>
    ELSE InsertByRecency(history[Len(history)],
                         SortByRecency(SubSeq(history, 1, Len(history) - 1)))

\* AppendNew that leaves unique_errors alone.
AppendNew_NoCount(testcase_data, entry) ==
    Put(testcase_data, "failure_history", Append(testcase_data.failure_history, entry))

\* Lines 139-140: a failure id not yet in the document.
AppendNew(testcase_data, entry) ==
    Put(Put(testcase_data, "failure_history",
            Append(testcase_data.failure_history, entry)),
        "unique_errors", testcase_data.unique_errors + 1)

\* CountObservation that counts nothing.
CountObservation_Skip(testcase_data, t) == Put(testcase_data, "last_updated", t)

\* Lines 143-144: the summary statistics.
CountObservation(testcase_data, t) ==
    Put(Put(testcase_data, "total_failures", testcase_data.total_failures + 1),
        "last_updated", t)

\* Lines 78-147: the document save_failure builds from the loaded one.
Merge(testcase_data, failure_id, failure_data, error, t) ==
    LET history == testcase_data.failure_history
        stack   == Get(failure_data, "stackTrace", "")
        i       == FindExisting(history, failure_id)
        merged  ==
            IF i # 0
            THEN Put(testcase_data, "failure_history",
                     [history EXCEPT ![i] = MergeExisting(@, error, stack, t)])
            ELSE AppendNew(testcase_data,
                           NewFailureEntry(failure_id, failure_data, error, t))
        counted == CountObservation(merged, t)
    IN  Put(counted, "failure_history", SortByRecency(counted.failure_history))

\* The persist step: the file rewritten, left alone (open raises) or left
\* truncated (the write raises after open has truncated the file).
Persist(fs, testcase_file, testcase_data, wr, t) ==
    CASE wr = "ok"         -> Put(fs, testcase_file,
                                  [valid |-> TRUE, json |-> testcase_data, mtime |-> t])
      [] wr = "open_error" -> fs
      [] wr = "partial"    -> Put(fs, testcase_file, [valid |-> FALSE, mtime |-> t])

(***************************************************************************)
(* save_failure                                                            *)
(***************************************************************************)
save_failure(failure_data, dt, rd, wr) ==
    LET test_case     == Get(failure_data, "testCase", <<"u", "n", "k", "n", "o", "w", "n">>)
        error         == Get(failure_data, "error", <<"u", "n", "k", "n", "o", "w", "n">>)
        t             == now + dt
        failure_id    == _generate_failure_id(test_case, error)
        testcase_file == _generate_testcase_filename(test_case)
        testcase_data == LoadOrCreate(files, testcase_file, test_case, t, rd)
        merged        == Merge(testcase_data, failure_id, failure_data, error, t)
    IN  /\ rd = "error" => testcase_file \in DOMAIN files
        /\ now' = t
        /\ files' = Persist(files, testcase_file, merged, wr, t)
        /\ analysis' = analysis
        /\ last' = [op |-> "save_failure", failure_data |-> failure_data,
                    failure_id |-> failure_id, rd |-> rd, wr |-> wr,
                    found |-> testcase_file \in DOMAIN files,
                    rep |-> IF last.op = "save_failure"
                               /\ last.failure_data = failure_data
                            THEN 2 ELSE 1]
        /\ inflight' = inflight
        /\ nops' = nops + 1

\* save_failure run by process p, in two steps.  Lines 35-76: the clock read,
\* the names computed and the document loaded into the memory of p.
save_failure_load(p, failure_data, dt) ==
    LET test_case     == Get(failure_data, "testCase", <<"u", "n", "k", "n", "o", "w", "n">>)
        error         == Get(failure_data, "error", <<"u", "n", "k", "n", "o", "w", "n">>)
        t             == now + dt
        testcase_file == _generate_testcase_filename(test_case)
    IN  /\ p \notin DOMAIN inflight
        /\ now' = t
        /\ inflight' = Put(inflight, p,
                           [failure_data  |-> failure_data,
                            error         |-> error,
                            t             |-> t,
                            failure_id    |-> _generate_failure_id(test_case, error),
                            testcase_file |-> testcase_file,
                            testcase_data |-> LoadOrCreate(files, testcase_file,
                                                           test_case, t, "ok")])
        /\ files' = files
        /\ analysis' = analysis
        /\ last' = [op |-> "save_failure_load",
                    returned   |-> Get(last, "returned", 0),
                    ids        |-> Get(last, "ids", {}),
                    overlapped |-> Get(last, "overlapped", FALSE) \/ DOMAIN inflight # {}]
        /\ nops' = nops + 1

\* Lines 78-157: the document in the memory of p merged with the
\* observation and written over the file, whatever the file holds by now.
save_failure_write(p) ==
    /\ p \in DOMAIN inflight
    /\ LET call == inflight[p]
       IN  /\ files' = Persist(files, call.testcase_file,
                               Merge(call.testcase_data, call.failure_id,
                                     call.failure_data, call.error, call.t),
                               "ok", now)
           /\ last' = [op |-> "save_failure_write",
                       returned   |-> Get(last, "returned", 0) + 1,
                       ids        |-> Get(last, "ids", {}) \cup {call.failure_id},
                       overlapped |-> Get(last, "overlapped", FALSE)]
    /\ inflight' = [q \in DOMAIN inflight \ {p} |-> inflight[q]]
    /\ analysis' = analysis
    /\ now' = now
    /\ nops' = nops + 1

(***************************************************************************)
(* update_failure_bug_status                                               *)
(***************************************************************************)
\* Lines 331-349: the file the update works on, <<>> when there is none.
ResolveFile(fs, test_case_name) ==
    LET testcase_filename == _generate_testcase_filename(test_case_name)
        matching == {f \in DOMAIN fs :
                        fs[f].valid /\ Get(fs[f].json, "testCase", <<>>) = test_case_name}
    IN  IF testcase_filename \in DOMAIN fs THEN testcase_filename
        ELSE IF matching # {} THEN CHOOSE f \in matching : TRUE
        ELSE <<>>

Classification(is_bug) == IF is_bug THEN "bug" ELSE "not_bug"

JsonBool(b) == IF b THEN "true" ELSE "false"

\* UpdateFailure that works on the oldest retained occurrence.
UpdateFailure_Oldest(failure, is_bug, tester_notes, t) ==
    LET recent == Get(failure, "recent_occurrences", <<>>)
        flagged == Put(Put(recent[1], "isBug", IF is_bug THEN "true" ELSE "false"),
                       "bug_status_updated", t)
        noted  == IF tester_notes # ""
                  THEN Put(flagged, "tester_notes",
                           Append(Get(flagged, "tester_notes", <<>>),
                                  [timestamp |-> t, note |-> tester_notes,
                                   classification |-> IF is_bug THEN "bug" ELSE "not_bug"]))
                  ELSE flagged
    IN  IF recent = <<>> THEN failure
        ELSE Put(failure, "recent_occurrences", [recent EXCEPT ![1] = noted])

\* UpdateFailure that overwrites tester_notes with the new note.
UpdateFailure_ReplacesNotes(failure, is_bug, tester_notes, t) ==
    LET recent == Get(failure, "recent_occurrences", <<>>)
        n      == Len(recent)
        flagged == Put(Put(recent[n], "isBug", IF is_bug THEN "true" ELSE "false"),
                       "bug_status_updated", t)
        noted  == IF tester_notes # ""
                  THEN Put(flagged, "tester_notes",
                           <<[timestamp |-> t, note |-> tester_notes,
                              classification |-> IF is_bug THEN "bug" ELSE "not_bug"]>>)
                  ELSE flagged
    IN  IF recent = <<>> THEN failure
        ELSE Put(failure, "recent_occurrences", [recent EXCEPT ![n] = noted])

\* Lines 362-382: the failure record with its most recent occurrence updated.
UpdateFailure(failure, is_bug, tester_notes, t) ==
    LET recent == Get(failure, "recent_occurrences", <<>>)
        n      == Len(recent)
        flagged == Put(Put(recent[n], "isBug", JsonBool(is_bug)),
                       "bug_status_updated", t)
        noted  == IF tester_notes # ""
                  THEN Put(flagged, "tester_notes",
                           Append(Get(flagged, "tester_notes", <<>>),
                                  [timestamp |-> t, note |-> tester_notes,
                                   classification |-> Classification(is_bug)]))
                  ELSE flagged
    IN  IF recent = <<>> THEN failure
        ELSE Put(failure, "recent_occurrences", [recent EXCEPT ![n] = noted])

\* The outcome of the call: <<result, files afterwards>>; the result
\* "IndexError" is the exception failure_history[failure_index] raises.
UpdateOutcome(fs, test_case_name, is_bug, tester_notes, failure_index, t, rd, wr) ==
    LET testcase_file == ResolveFile(fs, test_case_name)
    IN  IF testcase_file = <<>> THEN <<"False", fs>>
        ELSE IF ~ fs[testcase_file].valid \/ rd # "ok" THEN <<"False", fs>>
        ELSE
        LET testcase_data == fs[testcase_file].json
            failure_history == Get(testcase_data, "failure_history", <<>>)
            i == PyIndex(failure_history, failure_index)
        IN  IF failure_history = <<>> \/ failure_index >= Len(failure_history)
            THEN <<"False", fs>>
            ELSE IF i = 0 THEN <<"IndexError", fs>>
            ELSE
            LET updated == Put(testcase_data, "failure_history",
                               [failure_history EXCEPT
                                   ![i] = UpdateFailure(@, is_bug, tester_notes, t)])
            IN  <<IF wr = "ok" THEN "True" ELSE "False",
                  Persist(fs, testcase_file, updated, wr, t)>>

update_failure_bug_status(test_case_name, is_bug, tester_notes, failure_index, dt, rd, wr) ==
    LET t   == now + dt
        out == UpdateOutcome(files, test_case_name, is_bug, tester_notes,
                             failure_index, t, rd, wr)
    IN  /\ (rd = "error" \/ wr # "ok") => ResolveFile(files, test_case_name) # <<>>
        /\ now' = t
        /\ files' = out[2]
        /\ analysis' = analysis
        /\ last' = [op |-> "update_failure_bug_status",
                    test_case_name |-> test_case_name, is_bug |-> is_bug,
                    tester_notes |-> tester_notes, failure_index |-> failure_index,
                    result |-> out[1], rd |-> rd, wr |-> wr,
                    streak |-> IF last.op = "save_failure" THEN last.rep ELSE 0,
                    saved |-> IF last.op = "save_failure" THEN last.failure_id ELSE <<>>]
        /\ inflight' = inflight
        /\ nops' = nops + 1

\* get_testcase_history: <<>> stands for None.
get_testcase_history(fs, test_case) ==
    LET testcase_file == _generate_testcase_filename(test_case)
    IN  IF testcase_file \in DOMAIN fs /\ fs[testcase_file].valid
        THEN fs[testcase_file].json
        ELSE <<>>

\* Lines 184-191 with the outcome of the read: the OSError of open() and the
\* JSONDecodeError of json.load() are caught, the call returns None.
get_testcase_history_io(fs, test_case, rd) ==
    IF rd = "ok" THEN get_testcase_history(fs, test_case) ELSE <<>>

(***************************************************************************)
(* The analysis directory                                                  *)
(***************************************************************************)
\* Lines 215-225: analysis/<failure_id>_analysis.json is (re)written.
save_analysis(failure_id, analysis_text, dt) ==
    LET t             == now + dt
        analysis_file == <<<<>>, failure_id \o <<"_analysis.json">>>>
    IN  /\ now' = t
        /\ analysis' = Put(analysis, analysis_file,
                           [mtime |-> t,
                            json |-> [failure_id |-> failure_id, timestamp |-> t,
                                      analysis |-> analysis_text]])
        /\ files' = files
        /\ last' = [op |-> "save_analysis", failure_id |-> failure_id]
        /\ inflight' = inflight
        /\ nops' = nops + 1

\* Line 231: project_name.replace(" ", "_").replace("-", "_")
ProjectDirectory(project_name) ==
    [i \in 1..Len(project_name) |->
        IF project_name[i] \in {" ", "-"} THEN "_" ELSE project_name[i]]

\* Lines 227-251: analysis/<project>/test_analysis_<time to the second>.json
\* is written; the call returns the path.
save_project_analysis(project_name, analysis_data, dt) ==
    LET t         == now + dt
        file_path == <<ProjectDirectory(project_name),
                       <<"test_analysis_", ToString(t), ".json">>>>
    IN  /\ now' = t
        /\ analysis' = Put(analysis, file_path,
                           [mtime |-> t,
                            json |-> [project_name |-> project_name, timestamp |-> t,
                                      analysis_type |-> "latest_result_analysis",
                                      data |-> analysis_data]])
        /\ files' = files
        /\ last' = [op |-> "save_project_analysis", project_name |-> project_name,
                    result |-> file_path]
        /\ inflight' = inflight
        /\ nops' = nops + 1

(***************************************************************************)
(* Cleanup                                                                 *)
(***************************************************************************)
SecondsPerDay == 86400

\* the directory without the files removed
Without(fs, removed) == [f \in DOMAIN fs \ removed |-> fs[f]]

\* st_mtime <= cutoff_date
OlderThan_OrEqual(st_mtime, cutoff_date) == st_mtime <= cutoff_date

\* Lines 308 and 314: the test of a file against the cutoff.
OlderThan(st_mtime, cutoff_date) == st_mtime < cutoff_date

\* Lines 302-317.  analysis_path.glob("*.json") yields the files of the
\* analysis directory itself, none of a subdirectory.
cleanup_old_failures(days_old, dt) ==
    LET t             == now + dt
        cutoff_date   == t - days_old * SecondsPerDay
        old_testcases == {f \in DOMAIN files : OlderThan(files[f].mtime, cutoff_date)}
        old_analysis  == {p \in DOMAIN analysis :
                            p[1] = <<>> /\ OlderThan(analysis[p].mtime, cutoff_date)}
    IN  /\ now' = t
        /\ files' = Without(files, old_testcases)
        /\ analysis' = Without(analysis, old_analysis)
        /\ last' = [op |-> "cleanup_old_failures", days_old |-> days_old,
                    result |-> Cardinality(old_testcases)]
        /\ inflight' = inflight
        /\ nops' = nops + 1

\* Lines 456-526.  unlink() raises on the files of stuck_testcases and
\* stuck_analysis; rmdir() raises on a subdirectory that still holds a file.
\* The two counts are taken from the listings, before anything is removed.
cleanup_knowledge_db_fully(stuck_testcases, stuck_analysis) ==
    LET analysis_dirs == {p[1] : p \in DOMAIN analysis} \ {<<>>}
        stuck_dirs    == {p[1] : p \in stuck_analysis} \ {<<>>}
        errors        == [testcase_files |-> stuck_testcases,
                          analysis_files |-> stuck_analysis,
                          directories    |-> stuck_dirs]
    IN  /\ stuck_testcases \subseteq DOMAIN files
        /\ stuck_analysis \subseteq DOMAIN analysis
        /\ files' = Without(files, DOMAIN files \ stuck_testcases)
        /\ analysis' = Without(analysis, DOMAIN analysis \ stuck_analysis)
        /\ now' = now
        /\ last' = [op |-> "cleanup_knowledge_db_fully",
                    testcases_removed |-> Cardinality(DOMAIN files),
                    analysis_files_removed |-> Cardinality(DOMAIN analysis),
                    analysis_directories_removed |-> Cardinality(analysis_dirs),
                    errors |-> errors,
                    success |-> (stuck_testcases = {} /\ stuck_analysis = {})]
        /\ inflight' = inflight
        /\ nops' = nops + 1

(***************************************************************************)
(* Queries over the testcases directory                                    *)
(***************************************************************************)
UpperCase == <<"A", "B", "C", "D", "E", "F", "G", "H", "I", "J", "K", "L", "M",
               "N", "O", "P", "Q", "R", "S", "T", "U", "V", "W", "X", "Y", "Z">>

LowerCase == <<"a", "b", "c", "d", "e", "f", "g", "h", "i", "j", "k", "l", "m",
               "n", "o", "p", "q", "r", "s", "t", "u", "v", "w", "x", "y", "z">>

\* str.lower()
lower(s) ==
    [i \in 1..Len(s) |->
        IF \E k \in 1..Len(UpperCase) : UpperCase[k] = s[i]
        THEN LowerCase[CHOOSE k \in 1..Len(UpperCase) : UpperCase[k] = s[i]]
        ELSE s[i]]

Whitespace == {" ", "\t", "\n", "\r"}

\* str.split(): the maximal runs of characters that are not whitespace
RECURSIVE split(_)
split(s) ==
    IF s = <<>> THEN <<>>
    ELSE IF Head(s) \in Whitespace THEN split(Tail(s))
    ELSE LET stops == {i \in 1..Len(s) : s[i] \in Whitespace}
             n     == IF stops = {} THEN Len(s) + 1
                      ELSE CHOOSE i \in stops : \A j \in stops : i <= j
         IN  <<SubSeq(s, 1, n - 1)>> \o split(SubSeq(s, n, Len(s)))

\* a in b, for two str
In(a, b) == \E i \in 0..(Len(b) - Len(a)) : SubSeq(b, i + 1, i + Len(a)) = a

\* The orders in which glob("*.json") may yield the files of a directory.
DirectoryOrders(fs) ==
    {order \in [1..Cardinality(DOMAIN fs) -> DOMAIN fs] :
        \A i, j \in 1..Cardinality(DOMAIN fs) : i # j => order[i] # order[j]}

\* The exception open() or json.load() raises on a file that cannot be read.
Raised == [raised |-> TRUE, value |-> <<>>]

Returned(value) == [raised |-> FALSE, value |-> value]

MaxKeywords == 3

\* Lines 203-205: the test of one failure record against the query.
IsSimilar(testcase_data, failure, test_case, error) ==
    LET keywords == FirstN(split(lower(error)), MaxKeywords)
    IN  \/ In(lower(test_case), lower(Get(testcase_data, "testCase", <<>>)))
        \/ \E k \in 1..Len(keywords) :
              In(keywords[k], lower(Get(failure, "error", <<>>)))

\* Lines 197-209: the matches in the order of the scan.
RECURSIVE ScanSimilar(_, _, _, _)
ScanSimilar(fs, order, test_case, error) ==
    IF order = <<>> THEN <<>>
    ELSE LET testcase_data == fs[Head(order)].json
             hits == SelectSeq(Get(testcase_data, "failure_history", <<>>),
                               LAMBDA failure :
                                   IsSimilar(testcase_data, failure, test_case, error))
         IN  [i \in 1..Len(hits) |->
                 [testCase |-> testcase_data.testCase, failure |-> hits[i]]]
             \o ScanSimilar(fs, Tail(order), test_case, error)

\* insert x behind every entry whose occurrence_count is not smaller
RECURSIVE InsertByCount(_, _)
InsertByCount(x, sorted) ==
    IF sorted = <<>> THEN <<x>>
    ELSE IF Get(Head(sorted).failure, "occurrence_count", 0)
              >= Get(x.failure, "occurrence_count", 0)
         THEN <<Head(sorted)>> \o InsertByCount(x, Tail(sorted))
         ELSE <<x>> \o sorted

\* Line 212: list.sort(key = occurrence_count, reverse = True), stable
RECURSIVE SortByCount(_)
SortByCount(similar_failures) ==
    IF similar_failures = <<>> THEN <<>>
    ELSE InsertByCount(similar_failures[Len(similar_failures)],
                       SortByCount(SubSeq(similar_failures, 1,
                                          Len(similar_failures) - 1)))

\* find_similar_failures when glob yields the files in the given order; no
\* try surrounds open() and json.load().
find_similar_failures(fs, order, test_case, error) ==
    IF \E f \in DOMAIN fs : ~ fs[f].valid THEN Raised
    ELSE Returned(SortByCount(ScanSimilar(fs, order, test_case, error)))

\* MostRecentIsBug that reads the oldest retained occurrence.
MostRecentIsBug_Oldest(failure) ==
    LET recent_occurrences == Get(failure, "recent_occurrences", <<>>)
    IN  IF recent_occurrences = <<>> THEN "null"
        ELSE Get(recent_occurrences[1], "isBug", "null")

\* Lines 418-422: the isBug flag get_bug_statistics reads for a record.
MostRecentIsBug(failure) ==
    LET recent_occurrences == Get(failure, "recent_occurrences", <<>>)
    IN  IF recent_occurrences = <<>> THEN "null"
        ELSE Get(recent_occurrences[Len(recent_occurrences)], "isBug", "null")

\* Lines 424-432: the records of a history that fall into one class.
CountIsBug(failure_history, is_bug) ==
    Len(SelectSeq(failure_history, LAMBDA failure : MostRecentIsBug(failure) = is_bug))

\* Lines 405-447: the scan, the counts added document by document.
RECURSIVE ScanBugStatistics(_, _, _)
ScanBugStatistics(fs, order, stats) ==
    IF order = <<>> THEN stats
    ELSE LET testcase_data     == fs[Head(order)].json
             testcase_name     == Get(testcase_data, "testCase",
                                      <<"u", "n", "k", "n", "o", "w", "n">>)
             failure_history   == Get(testcase_data, "failure_history", <<>>)
             testcase_bugs     == CountIsBug(failure_history, "true")
             testcase_non_bugs == CountIsBug(failure_history, "false")
             testcase_pending  == Len(failure_history) - testcase_bugs - testcase_non_bugs
         IN  ScanBugStatistics(fs, Tail(order),
                 [stats EXCEPT
                     !.total_failures = @ + Len(failure_history),
                     !.classified_as_bugs = @ + testcase_bugs,
                     !.classified_as_not_bugs = @ + testcase_non_bugs,
                     !.pending_classification = @ + testcase_pending,
                     !.testcases_with_bugs =
                         IF testcase_bugs > 0
                         THEN Append(@, [testCase |-> testcase_name,
                                         bugs |-> testcase_bugs,
                                         non_bugs |-> testcase_non_bugs,
                                         pending |-> testcase_pending])
                         ELSE @,
                     !.testcases_without_bugs =
                         IF testcase_bugs = 0 /\ testcase_non_bugs > 0
                         THEN Append(@, [testCase |-> testcase_name,
                                         non_bugs |-> testcase_non_bugs,
                                         pending |-> testcase_pending])
                         ELSE @])

\* get_bug_statistics when glob yields the files in the given order; no try
\* surrounds open() and json.load().  The rate, a float in the code, is the
\* fraction num / den.
get_bug_statistics(fs, order) ==
    IF \E f \in DOMAIN fs : ~ fs[f].valid THEN Raised
    ELSE LET stats == ScanBugStatistics(fs, order,
                          [total_failures |-> 0, classified_as_bugs |-> 0,
                           classified_as_not_bugs |-> 0, pending_classification |-> 0,
                           bug_classification_rate |-> [num |-> 0, den |-> 1],
                           testcases_with_bugs |-> <<>>, testcases_without_bugs |-> <<>>])
             classified_total == stats.classified_as_bugs + stats.classified_as_not_bugs
         IN  Returned(IF stats.total_failures > 0
                      THEN [stats EXCEPT !.bug_classification_rate =
                               [num |-> classified_total * 100, den |-> stats.total_failures]]
                      ELSE stats)

\* A dict of counts, in the order of insertion of its keys: a sequence of
\* items [key, value].  d[key] = d.get(key, 0) + n
AddCount(items, key, n) ==
    IF \E i \in 1..Len(items) : items[i].key = key
    THEN [i \in 1..Len(items) |->
             IF items[i].key = key THEN [items[i] EXCEPT !.value = @ + n]
             ELSE items[i]]
    ELSE Append(items, [key |-> key, value |-> n])

\* d[key] = item
SetItem(items, item) ==
    IF \E i \in 1..Len(items) : items[i].key = item.key
    THEN [i \in 1..Len(items) |-> IF items[i].key = item.key THEN item ELSE items[i]]
    ELSE Append(items, item)

\* insert x behind every item whose value is not smaller
RECURSIVE InsertByValue(_, _)
InsertByValue(x, sorted) ==
    IF sorted = <<>> THEN <<x>>
    ELSE IF Head(sorted).value >= x.value
         THEN <<Head(sorted)>> \o InsertByValue(x, Tail(sorted))
         ELSE <<x>> \o sorted

\* sorted(d.items(), key = value, reverse = True), stable
RECURSIVE SortByValue(_)
SortByValue(items) ==
    IF items = <<>> THEN <<>>
    ELSE InsertByValue(items[Len(items)], SortByValue(SubSeq(items, 1, Len(items) - 1)))

MaxErrorKey == 100

TopErrors == 5

TopTypes == 10

\* text.split('\n')[0]
FirstLine(text) ==
    LET breaks == {i \in 1..Len(text) : text[i] = "\n"}
    IN  IF breaks = {} THEN text
        ELSE SubSeq(text, 1, (CHOOSE i \in breaks : \A j \in breaks : i <= j) - 1)

\* Lines 284-291: the counts of one failure history added to the two dicts.
RECURSIVE CountHistory(_, _)
CountHistory(failure_history, counts) ==
    IF failure_history = <<>> THEN counts
    ELSE LET failure   == Head(failure_history)
             file_path == Get(failure, "filePath", "unknown")
             error     == Get(failure, "error", <<>>)
             error_key == FirstN(FirstLine(error), MaxErrorKey)
             n         == Get(failure, "occurrence_count", 1)
         IN  CountHistory(Tail(failure_history),
                 [failure_types |-> AddCount(counts.failure_types, file_path, n),
                  most_common_errors |-> AddCount(counts.most_common_errors, error_key, n)])

\* Lines 266-291: the scan, the totals added document by document.
RECURSIVE ScanFailureStats(_, _, _)
ScanFailureStats(fs, order, acc) ==
    IF order = <<>> THEN acc
    ELSE LET testcase_data == fs[Head(order)].json
             testcase_name == Get(testcase_data, "testCase",
                                  <<"u", "n", "k", "n", "o", "w", "n">>)
             testcase_total_failures == Get(testcase_data, "total_failures", 0)
             testcase_unique_errors  == Get(testcase_data, "unique_errors", 0)
             counts == CountHistory(Get(testcase_data, "failure_history", <<>>),
                                    [failure_types |-> acc.failure_types,
                                     most_common_errors |-> acc.most_common_errors])
         IN  ScanFailureStats(fs, Tail(order),
                 [total_failures |-> acc.total_failures + testcase_total_failures,
                  total_unique_errors |-> acc.total_unique_errors + testcase_unique_errors,
                  testcase_stats |-> SetItem(acc.testcase_stats,
                                             [key |-> testcase_name,
                                              value |-> testcase_total_failures,
                                              unique_errors |-> testcase_unique_errors]),
                  failure_types |-> counts.failure_types,
                  most_common_errors |-> counts.most_common_errors])

\* get_failure_stats when glob yields the files in the given order; no try
\* surrounds open() and json.load().  An item of top_failing_testcases has
\* the total_failures of the test case as its value.
get_failure_stats(fs, order) ==
    IF \E f \in DOMAIN fs : ~ fs[f].valid THEN Raised
    ELSE LET acc == ScanFailureStats(fs, order,
                        [total_failures |-> 0, total_unique_errors |-> 0,
                         testcase_stats |-> <<>>, failure_types |-> <<>>,
                         most_common_errors |-> <<>>])
         IN  Returned([total_testcases |-> Cardinality(DOMAIN fs),
                       total_failures |-> acc.total_failures,
                       total_unique_errors |-> acc.total_unique_errors,
                       failure_types |-> FirstN(SortByValue(acc.failure_types), TopTypes),
                       most_common_errors |->
                           FirstN(SortByValue(acc.most_common_errors), TopErrors),
                       top_failing_testcases |->
                           FirstN(SortByValue(acc.testcase_stats), TopTypes)])

\* Lines 159-177: the first record with the id, in the order glob yields the
\* files; a file that cannot be read is skipped; <<>> stands for None.
RECURSIVE get_failure_history(_, _, _)
get_failure_history(fs, order, failure_id) ==
    IF order = <<>> THEN <<>>
    ELSE LET hits == IF fs[Head(order)].valid
                     THEN SelectSeq(Get(fs[Head(order)].json, "failure_history", <<>>),
                                    LAMBDA failure :
                                        Get(failure, "failure_id", <<>>) = failure_id)
                     ELSE <<>>
         IN  IF hits # <<>> THEN Head(hits)
             ELSE get_failure_history(fs, Tail(order), failure_id)

(***************************************************************************)
(* get_testcase_tester_notes (src/testcase_notes_function.py)              *)
(***************************************************************************)
MaxLatestError == 100

\* Line 58: the error text of the last occurrence, cut when it is long.
LatestError(failure) ==
    LET recent == Get(failure, "recent_occurrences", <<>>)
        error  == Get(recent[Len(recent)], "error", <<>>)
    IN  IF recent = <<>> THEN <<"No recent error">>
        ELSE IF Len(error) > MaxLatestError
             THEN FirstN(error, MaxLatestError) \o <<".", ".", ".">>
             ELSE error

\* Lines 32-59: what the function reads of one failure record; the keys
\* tester_notes, isBug and bug_status_updated are looked up on the record.
NotesEntry(failure) ==
    [failure_id |-> Get(failure, "failure_id", <<>>),
     first_seen |-> Get(failure, "first_seen", 0),
     last_seen |-> Get(failure, "last_seen", 0),
     occurrence_count |-> Get(failure, "occurrence_count", 0),
     current_classification |-> [is_bug |-> Get(failure, "isBug", "null"),
                                 last_updated |-> Get(failure, "bug_status_updated", 0)],
     tester_notes |-> Get(failure, "tester_notes", <<>>),
     notes_count |-> Len(Get(failure, "tester_notes", <<>>)),
     latest_error |-> LatestError(failure)]

RECURSIVE TotalNotes(_)
TotalNotes(failure_history) ==
    IF failure_history = <<>> THEN 0
    ELSE Len(Get(Head(failure_history), "tester_notes", <<>>))
           + TotalNotes(Tail(failure_history))

\* the response, before json.dumps
get_testcase_tester_notes(fs, test_case_name) ==
    LET testcase_data == get_testcase_history(fs, test_case_name)
    IN  IF testcase_data = <<>>
        THEN [success |-> FALSE, test_case |-> test_case_name]
        ELSE
        LET failure_history == Get(testcase_data, "failure_history", <<>>)
            active == SelectSeq(failure_history,
                                LAMBDA failure :
                                    \/ Get(failure, "tester_notes", <<>>) # <<>>
                                    \/ Get(failure, "isBug", "null") # "null")
            count(flag) == Len(SelectSeq(failure_history,
                                         LAMBDA failure : Get(failure, "isBug", "null") = flag))
        IN  [success |-> TRUE,
             test_case |-> test_case_name,
             testcase_summary |->
                 [created |-> Get(testcase_data, "created", 0),
                  last_updated |-> Get(testcase_data, "last_updated", 0),
                  total_failures |-> Get(testcase_data, "total_failures", 0),
                  unique_errors |-> Get(testcase_data, "unique_errors", 0)],
             tester_activity |->
                 [total_notes |-> TotalNotes(failure_history),
                  failures_with_activity |-> Len(active),
                  bug_classifications |->
                      [bugs |-> count("true"), not_bugs |-> count("false"),
                       pending |-> Len(failure_history) - count("true") - count("false")]],
             failures_with_notes |-> [i \in 1..Len(active) |-> NotesEntry(active[i])]]

(***************************************************************************)
(* result_client.py: OrdinoResultClient.process_and_save_all_failures     *)
(*                                                                         *)
(* The testing platform is an input of a run: the list get_projects        *)
(* returns, each project with the answer its failed-test-cases endpoint    *)
(* gives, [raises, isSuccess, extraInfo].  A run threads the files and the *)
(* clock through its calls of save_failure; reads and writes succeed, and  *)
(* every call of save_failure reads the clock dt after the previous one.   *)
(***************************************************************************)
\* knowledge_db.save_failure at time t: the files it leaves.
SaveAt(fs, failure_data, t) ==
    LET test_case     == Get(failure_data, "testCase", <<"u", "n", "k", "n", "o", "w", "n">>)
        error         == Get(failure_data, "error", <<"u", "n", "k", "n", "o", "w", "n">>)
        failure_id    == _generate_failure_id(test_case, error)
        testcase_file == _generate_testcase_filename(test_case)
        testcase_data == LoadOrCreate(fs, testcase_file, test_case, t, "ok")
    IN  Persist(fs, testcase_file,
                Merge(testcase_data, failure_id, failure_data, error, t), "ok", t)

\* The order in which glob yields the files does not decide whether a scan
\* raises.
SomeOrder(fs) == CHOOSE order \in DirectoryOrders(fs) : TRUE

\* The element of a singleton set: The({e}) is e, and in
\* The({F(x) : x \in {e}}) the value of e is computed once, as the statement
\* x = e computes it, however many times F uses x.
The(singleton) == CHOOSE x \in singleton : TRUE

\* get_test_failures, lines 51-76: every fetched failure is saved, then its
\* history and its similar failures are read; find_similar_failures raises
\* on a file that cannot be read, after the save.
RECURSIVE EnhanceFailures(_, _, _, _)
EnhanceFailures(fs, t, extraInfo, dt) ==
    IF extraInfo = <<>> THEN [fs |-> fs, t |-> t, raised |-> FALSE]
    ELSE LET failure == Head(extraInfo)
         IN  The({IF find_similar_failures(saved, SomeOrder(saved),
                                           Get(failure, "testCase", <<>>),
                                           Get(failure, "error", <<>>)).raised
                  THEN [fs |-> saved, t |-> t + dt, raised |-> TRUE]
                  ELSE EnhanceFailures(saved, t + dt, Tail(extraInfo), dt) :
                  saved \in {SaveAt(fs, failure, t + dt)}})

\* get_test_failures: the files and the clock it leaves and whether it
\* raised.  json.dumps keeps the keys _save_project_failures reads as the
\* platform gave them, so the data it returns is the answer itself.
get_test_failures(fs, t, response, dt) ==
    IF response.raises THEN [fs |-> fs, t |-> t, raised |-> TRUE]
    ELSE IF response.isSuccess /\ response.extraInfo # <<>>
         THEN The({[enhanced EXCEPT !.raised =
                       @ \/ get_failure_stats(enhanced.fs, SomeOrder(enhanced.fs)).raised] :
                   enhanced \in {EnhanceFailures(fs, t, response.extraInfo, dt)}})
         ELSE [fs |-> fs, t |-> t, raised |-> FALSE]

\* _save_project_failures: one more save_failure for every failure.
RECURSIVE _save_project_failures(_, _, _, _, _, _)
_save_project_failures(fs, t, failures, project_name, project_id, dt) ==
    IF failures = <<>> THEN [fs |-> fs, t |-> t, saved_count |-> 0]
    ELSE LET failure == Head(failures)
             failure_data ==
                 [testCase |-> Get(failure, "testCase",
                                   <<"U", "n", "k", "n", "o", "w", "n", " ", "T", "e", "s", "t">>),
                  status |-> Get(failure, "status", "failed"),
                  error |-> Get(failure, "error",
                                <<"U", "n", "k", "n", "o", "w", "n", " ", "E", "r", "r", "o", "r">>),
                  stackTrace |-> Get(failure, "stackTrace", ""),
                  filePath |-> Get(failure, "filePath", ""),
                  failedStep |-> Get(failure, "failedStep", ""),
                  project_name |-> project_name,
                  project_id |-> project_id]
         IN  The({[_save_project_failures(saved, t + dt, Tail(failures),
                                          project_name, project_id, dt)
                      EXCEPT !.saved_count = @ + 1] :
                  saved \in {SaveAt(fs, failure_data, t + dt)}})

\* _process_single_project: the files and the clock it leaves, the count it
\* returns, and whether it appended the project to processed_projects or to
\* failed_projects.
_process_single_project(fs, t, project, dt) ==
    LET project_id   == Get(project, "id", <<>>)
        project_name == Get(project, "name", <<"U", "n", "k", "n", "o", "w", "n">>)
        failures_data == project.response
        nothing      == [fs |-> fs, t |-> t, result |-> 0,
                         processed |-> FALSE, failed |-> FALSE]
    IN  IF project_id = <<>> THEN nothing
        ELSE The({IF fetched.raised
                  THEN [nothing EXCEPT !.fs = fetched.fs, !.t = fetched.t, !.failed = TRUE]
                  ELSE IF failures_data.isSuccess /\ failures_data.extraInfo # <<>>
                       THEN The({[fs |-> saved.fs, t |-> saved.t,
                                  result |-> saved.saved_count,
                                  processed |-> saved.saved_count > 0, failed |-> FALSE] :
                                 saved \in {_save_project_failures(
                                                fetched.fs, fetched.t, failures_data.extraInfo,
                                                project_name, project_id, dt)}})
                       ELSE IF failures_data.isSuccess
                            THEN [nothing EXCEPT !.processed = TRUE]
                            ELSE nothing :
                  fetched \in {get_test_failures(fs, t, project.response, dt)}})

\* Lines 129-132: the loop over projects_to_process.
RECURSIVE ProcessProjects(_, _, _)
ProcessProjects(acc, projects_to_process, dt) ==
    IF projects_to_process = <<>> THEN acc
    ELSE LET project == Head(projects_to_process)
             name    == Get(project, "name", <<"U", "n", "k", "n", "o", "w", "n">>)
         IN  The({ProcessProjects(next, Tail(projects_to_process), dt) :
                  next \in {The({[fs |-> done.fs, t |-> done.t,
                                  total_cases |-> acc.total_cases + done.result,
                                  processed_projects |->
                                      IF done.processed
                                      THEN Append(acc.processed_projects, name)
                                      ELSE acc.processed_projects,
                                  failed_projects |->
                                      IF done.failed
                                      THEN Append(acc.failed_projects, name)
                                      ELSE acc.failed_projects] :
                                 done \in {_process_single_project(acc.fs, acc.t,
                                                                   project, dt)}})}})

\* find_project_by_name: the first project whose name is, or contains, the
\* name asked for, letter case apart; <<>> when there is none.
find_project_by_name(projects, project_name) ==
    LET matches == {i \in 1..Len(projects) :
                       \/ lower(Get(projects[i], "name", <<>>)) = lower(project_name)
                       \/ In(lower(project_name), lower(Get(projects[i], "name", <<>>)))}
    IN  IF matches = {} THEN <<>>
        ELSE <<projects[CHOOSE i \in matches : \A j \in matches : i <= j]>>

\* process_and_save_all_failures(project_name), project_name = <<>> for None,
\* when get_projects returns all_projects.
process_and_save_all_failures(project_name, all_projects, dt) ==
    LET found == find_project_by_name(all_projects, project_name)
        projects_to_process == IF project_name # <<>> THEN found ELSE all_projects
    IN  \E done \in {ProcessProjects([fs |-> files, t |-> now, total_cases |-> 0,
                                      processed_projects |-> <<>>,
                                      failed_projects |-> <<>>],
                                     projects_to_process, dt)} :
            /\ files' = done.fs
            /\ now' = done.t
            /\ analysis' = analysis
            /\ inflight' = inflight
            /\ nops' = nops + 1
            /\ last' = IF project_name # <<>> /\ found = <<>>
                       THEN [op |-> "process_and_save_all_failures", success |-> FALSE,
                             projects_processed |-> <<>>, total_cases_saved |-> 0]
                       ELSE IF done.processed_projects # <<>> \/ done.total_cases > 0
                            THEN [op |-> "process_and_save_all_failures", success |-> TRUE,
                                  projects_processed |-> done.processed_projects,
                                  total_cases_saved |-> done.total_cases]
                            ELSE [op |-> "process_and_save_all_failures", success |-> FALSE,
                                  projects_processed |-> done.failed_projects,
                                  total_cases_saved |-> 0]

(***************************************************************************)
(* Inputs                                                                  *)
(***************************************************************************)
T1 == <<"T", "1">>

T1c == <<"T", "1", ":">>

T2 == <<"T", " ", "2">>

E == <<"E">>

cE == <<":", "E">>

Obs(test_case, error, stack) ==
    [testCase |-> test_case, error |-> error, stackTrace |-> stack,
     status |-> "failed", filePath |-> "suite.feature", failedStep |-> "step"]

\* T1 and T1c share the file T1.json; (T1c, E) and (T1, cE) share the
\* failure id as well; the observation of T2 leaves the optional keys out.
Observations ==
    {Obs(T1, E, "S1"), Obs(T1, E, "S2"), Obs(T1c, E, "S1"), Obs(T1, cE, "S1"),
     [testCase |-> T2, error |-> E]}

TimeSteps == {1, DedupWindow}

Names == {T1, T2}

Verdicts == {<<TRUE, "confirmed">>, <<FALSE, "flaky">>, <<TRUE, "">>, <<FALSE, "">>}

Indexes == {-2, -1, 0, 1}

(***************************************************************************)
(* Specifications                                                          *)
(***************************************************************************)
Init ==
    /\ files = <<>>
    /\ analysis = <<>>
    /\ inflight = <<>>
    /\ now = 0
    /\ last = [op |-> "none"]
    /\ nops = 0

SaveFailure ==
    /\ nops < MaxOps
    /\ \E o \in Observations, dt \in TimeSteps : save_failure(o, dt, "ok", "ok")

UpdateBugStatus ==
    /\ nops < MaxOps
    /\ \E n \in Names, v \in Verdicts, i \in Indexes :
          update_failure_bug_status(n, v[1], v[2], i, 1, "ok", "ok")

Next == SaveFailure \/ UpdateBugStatus

Spec == Init /\ [][Next]_vars

\* A long stream of observations of one failure identity: a repeat of the
\* same stack trace a second later, or another stack trace after the window.
StreamSteps == {<<Obs(T1, E, "S1"), 1>>, <<Obs(T1, E, "S2"), DedupWindow>>}

SaveStream ==
    /\ nops < MaxLong
    /\ \E s \in StreamSteps : save_failure(s[1], s[2], "ok", "ok")

SpecLong == Init /\ [][SaveStream]_vars

\* Calls whose load or persist step may fail.
IOObservations == {Obs(T1, E, "S1"), Obs(T1, E, "S2"), [testCase |-> T2, error |-> E]}

IOOutcomes == {<<"ok", "ok">>, <<"error", "ok">>, <<"ok", "open_error">>, <<"ok", "partial">>}

SaveFailureIO ==
    /\ nops < MaxOps
    /\ \E o \in IOObservations, io \in IOOutcomes : save_failure(o, 1, io[1], io[2])

UpdateBugStatusIO ==
    /\ nops < MaxOps
    /\ \E v \in {<<TRUE, "confirmed">>, <<FALSE, "">>}, io \in IOOutcomes :
          update_failure_bug_status(T1, v[1], v[2], 0, 1, io[1], io[2])

NextIO == SaveFailureIO \/ UpdateBugStatusIO

SpecIO == Init /\ [][NextIO]_vars

\* The end-to-end scenario: two failure identities of one document, saved
\* within the window and classified at index 0.
E2EObservations == {Obs(T1, E, "S1"), Obs(T1, E, "S2"), Obs(T1c, E, "S1")}

SaveE2E ==
    /\ nops < MaxE2E
    /\ \E o \in E2EObservations : save_failure(o, 1, "ok", "ok")

UpdateE2E ==
    /\ nops < MaxE2E
    /\ \E n \in {T1, T1c} : update_failure_bug_status(n, TRUE, "confirmed", 0, 1, "ok", "ok")

NextE2E == SaveE2E \/ UpdateE2E

SpecE2E == Init /\ [][NextE2E]_vars

\* The store swept: observations and classifications a second or a day
\* apart, analysis records of both kinds, and the two cleanups, the full one
\* with at most one file that cannot be deleted.
SweepObservations == {Obs(T1, E, "S1"), [testCase |-> T2, error |-> E]}

SweepSteps == {1, SecondsPerDay}

SweepSave ==
    /\ nops < MaxSweep
    /\ \E o \in SweepObservations, dt \in SweepSteps : save_failure(o, dt, "ok", "ok")

SweepUpdate ==
    /\ nops < MaxSweep
    /\ update_failure_bug_status(T1, TRUE, "confirmed", 0, SecondsPerDay, "ok", "ok")

SaveAnalysis ==
    /\ nops < MaxSweep
    /\ save_analysis(_generate_failure_id(T1, E), "flaky locator", 1)

SaveProjectAnalysis ==
    /\ nops < MaxSweep
    /\ save_project_analysis(<<"P", " ", "1">>, "summary", 1)

CleanupOld ==
    /\ nops < MaxSweep
    /\ \E days_old \in {0, 1}, dt \in SweepSteps : cleanup_old_failures(days_old, dt)

CleanupFully ==
    /\ nops < MaxSweep
    /\ \/ cleanup_knowledge_db_fully({}, {})
       \/ \E f \in DOMAIN files : cleanup_knowledge_db_fully({f}, {})
       \/ \E p \in DOMAIN analysis : cleanup_knowledge_db_fully({}, {p})

NextSweep ==
    \/ SweepSave
    \/ SweepUpdate
    \/ SaveAnalysis
    \/ SaveProjectAnalysis
    \/ CleanupOld
    \/ CleanupFully

SpecSweep == Init /\ [][NextSweep]_vars

\* Two processes that run save_failure for one test case, step by step.
Processes == {"p1", "p2"}

RaceObservations == {Obs(T1, E, "S1"), Obs(T1, cE, "S1")}

RaceLoad ==
    /\ nops < MaxRace
    /\ \E p \in Processes, o \in RaceObservations : save_failure_load(p, o, 1)

RaceWrite ==
    /\ nops < MaxRace
    /\ \E p \in Processes : save_failure_write(p)

NextRace == RaceLoad \/ RaceWrite

SpecRace == Init /\ [][NextRace]_vars

\* A long life of one failure record: a new occurrence of it after the
\* window, or a note on its most recent occurrence.
NoteSave ==
    /\ nops < MaxNotes
    /\ save_failure(Obs(T1, E, "S1"), DedupWindow, "ok", "ok")

NoteUpdate ==
    /\ nops < MaxNotes
    /\ update_failure_bug_status(T1, TRUE, "confirmed", 0, 1, "ok", "ok")

NextNotes == NoteSave \/ NoteUpdate

SpecNotes == Init /\ [][NextNotes]_vars

\* A stream of identical observations, each less than the dedup window after
\* the previous one.
StreamGaps == {120, 180}

StreamObservation == Obs(T1, E, "S1")

StreamSave ==
    /\ nops < MaxStream
    /\ \E dt \in StreamGaps : save_failure(StreamObservation, dt, "ok", "ok")

SpecStream == Init /\ [][StreamSave]_vars

\* Runs of the client against a platform of two projects, and saves that a
\* crash interrupts in the middle of the write.
Answer(raises, isSuccess, extraInfo) ==
    [raises |-> raises, isSuccess |-> isSuccess, extraInfo |-> extraInfo]

Answers ==
    {Answer(TRUE, FALSE, <<>>), Answer(FALSE, FALSE, <<>>), Answer(FALSE, TRUE, <<>>),
     Answer(FALSE, TRUE, <<Obs(T1, E, "S1")>>),
     Answer(FALSE, TRUE, <<Obs(T1, E, "S1"), [testCase |-> T2, error |-> E]>>)}

Web == <<"W", "e", "b">>

WebApi == <<"W", "e", "b", "A", "p", "i">>

Platforms ==
    {<<[id |-> <<"1">>, name |-> Web, response |-> a],
       [id |-> <<"2">>, name |-> WebApi, response |-> b]>> : a \in Answers, b \in Answers}

ProjectNames == {<<>>, <<"a", "p", "i">>, <<"w", "e", "b">>, <<"x">>}

ProcessAll ==
    /\ nops < MaxRuns
    /\ \E project_name \in ProjectNames, all_projects \in Platforms, dt \in TimeSteps :
          process_and_save_all_failures(project_name, all_projects, dt)

InterruptedSave ==
    /\ nops < MaxRuns
    /\ \E o \in {Obs(T1, E, "S1"), Obs(T2, E, "")} : save_failure(o, 1, "ok", "partial")

NextClient == ProcessAll \/ InterruptedSave

SpecClient == Init /\ [][NextClient]_vars

(***************************************************************************)
(* State functions used by the properties                                  *)
(***************************************************************************)
Documents == {f \in DOMAIN files : files[f].valid}

ObsTestCase(o) == Get(o, "testCase", <<"u", "n", "k", "n", "o", "w", "n">>)

ObsError(o) == Get(o, "error", <<"u", "n", "k", "n", "o", "w", "n">>)

ObsStack(o) == Get(o, "stackTrace", "")

ObsFile(o) == _generate_testcase_filename(ObsTestCase(o))

\* the failure records of document d with failure id x
RecordsOf(d, x) == {i \in 1..Len(d.failure_history) : d.failure_history[i].failure_id = x}

RecordOf(d, x) == d.failure_history[CHOOSE i \in RecordsOf(d, x) : TRUE]

Newest(r) == r.recent_occurrences[Len(r.recent_occurrences)]

SavedNow == last'.op = "save_failure" /\ nops' = nops + 1

UpdatedNow == last'.op = "update_failure_bug_status" /\ nops' = nops + 1

(***************************************************************************)
(* C1  Idempotent dedup.  A save_failure call that found no document for   *)
(* its test case, followed by a save_failure call with the same testCase,  *)
(* error and stackTrace less than 5 minutes later, leaves the failure      *)
(* record with occurrence_count = 1 and one entry in recent_occurrences,   *)
(* and the document with total_failures = 2.                               *)
(***************************************************************************)
C1_IdempotentDedup ==
    [][ ( /\ last.op = "save_failure"
          /\ ~ last.found
          /\ SavedNow
          /\ last'.failure_data = last.failure_data
          /\ now' - now < DedupWindow )
        => LET d == get_testcase_history(files', ObsTestCase(last'.failure_data))
           IN  /\ d # <<>>
               /\ d.total_failures = 2
               /\ Cardinality(RecordsOf(d, last'.failure_id)) = 1
               /\ RecordOf(d, last'.failure_id).occurrence_count = 1
               /\ Len(RecordOf(d, last'.failure_id).recent_occurrences) = 1
      ]_vars

\* the state after the second of two such calls
C1_Witness ==
    /\ last.op = "save_failure"
    /\ last.rep = 2
    /\ LET d == get_testcase_history(files, ObsTestCase(last.failure_data))
       IN  /\ d # <<>>
           /\ d.total_failures = 2
           /\ d.created = now - 1
           /\ RecordsOf(d, last.failure_id) # {}

(***************************************************************************)
(* C2  New-occurrence growth.  A save_failure call whose failure id is     *)
(* already in the document, and whose stackTrace differs from that of the  *)
(* latest recorded occurrence or which comes more than 5 minutes after it, *)
(* increases the occurrence_count of that record by exactly 1 and appends  *)
(* exactly one occurrence, built from the observation.                     *)
(***************************************************************************)
C2_NewOccurrenceGrowth ==
    [][ SavedNow =>
        LET o == last'.failure_data
            x == last'.failure_id
            d == get_testcase_history(files, ObsTestCase(o))
        IN  ( /\ d # <<>>
              /\ RecordsOf(d, x) # {}
              /\ \/ Newest(RecordOf(d, x)).stackTrace # ObsStack(o)
                 \/ now' - Newest(RecordOf(d, x)).timestamp > DedupWindow )
            => LET r  == RecordOf(d, x)
                   d2 == get_testcase_history(files', ObsTestCase(o))
                   r2 == RecordOf(d2, x)
                   n2 == Len(r2.recent_occurrences)
               IN  /\ Cardinality(RecordsOf(d2, x)) = 1
                   /\ r2.occurrence_count = r.occurrence_count + 1
                   /\ Newest(r2) = [timestamp |-> now', error |-> ObsError(o),
                                    stackTrace |-> ObsStack(o), isBug |-> "null",
                                    tester_notes |-> <<>>]
                   /\ SubSeq(r2.recent_occurrences, 1, n2 - 1)
                        = LastN(r.recent_occurrences, n2 - 1)
                   /\ n2 = Min(Len(r.recent_occurrences) + 1, MaxRecent)
      ]_vars

\* a record that has grown once by another stack trace inside the window
\* and once by the same stack trace after the window
C2_Witness ==
    /\ last.op = "save_failure"
    /\ LET d == get_testcase_history(files, ObsTestCase(last.failure_data))
       IN  /\ d # <<>>
           /\ \E i \in 1..Len(d.failure_history) :
                 LET occ == d.failure_history[i].recent_occurrences
                 IN  /\ d.failure_history[i].occurrence_count = 3
                     /\ Len(occ) = 3
                     /\ \E j \in 1..2, k \in 1..2 :
                           /\ occ[j + 1].stackTrace # occ[j].stackTrace
                           /\ occ[j + 1].timestamp - occ[j].timestamp < DedupWindow
                           /\ occ[k + 1].stackTrace = occ[k].stackTrace
                           /\ occ[k + 1].timestamp - occ[k].timestamp >= DedupWindow

(***************************************************************************)
(* C3  In every document, unique_errors is the number of entries of        *)
(* failure_history.                                                        *)
(***************************************************************************)
C3_UniqueErrors ==
    \A f \in Documents :
        files[f].json.unique_errors = Len(files[f].json.failure_history)

\* a document with two records, one of them classified by an update
C3_Witness ==
    /\ last.op = "update_failure_bug_status"
    /\ last.result = "True"
    /\ \E f \in Documents :
          /\ files[f].json.unique_errors = 2
          /\ files[f].json.total_failures = 2

(***************************************************************************)
(* C4  The persisted total_failures across save_failure and                *)
(* update_failure_bug_status calls, load and persist failures included.    *)
(***************************************************************************)
Total(fs, f) == fs[f].json.total_failures

\* C4 as claimed: whatever the load step finds, the persisted
\* total_failures of a document never decreases, and a save_failure call
\* that persists leaves it exactly 1 above the persisted value.
C4_TotalNeverDecreases ==
    [][ /\ \A f \in Documents \cap Documents' : Total(files', f) >= Total(files, f)
        /\ (SavedNow /\ last'.wr = "ok") =>
              LET f == ObsFile(last'.failure_data)
              IN  /\ f \in Documents'
                  /\ Total(files', f) = (IF f \in Documents THEN Total(files, f) ELSE 0) + 1
      ]_vars

\* C4 as amended: a save_failure call that persists writes total_failures
\* one above that of the document its load step obtained, which is the
\* stored document when the file was read and the empty shell (0) when the
\* file was absent, corrupt or unreadable; update_failure_bug_status and
\* calls on other test cases leave total_failures alone, and a save_failure
\* call whose load step read the stored document never decreases it.
C4_TotalCountsLoaded ==
    [][ /\ (SavedNow /\ last'.wr = "ok") =>
              LET f == ObsFile(last'.failure_data)
              IN  /\ f \in Documents'
                  /\ Total(files', f)
                        = (IF f \in Documents /\ last'.rd = "ok"
                           THEN Total(files, f) ELSE 0) + 1
                  /\ \A g \in (Documents \cap Documents') \ {f} :
                        Total(files', g) = Total(files, g)
        /\ (SavedNow /\ last'.rd = "ok") =>
              \A f \in Documents \cap Documents' : Total(files', f) >= Total(files, f)
        /\ UpdatedNow =>
              \A f \in Documents \cap Documents' : Total(files', f) = Total(files, f)
      ]_vars

\* a document that has counted a new failure type, a new occurrence and a
\* duplicate-window observation
C4_Witness ==
    /\ last.op = "save_failure"
    /\ \E f \in Documents :
          /\ Total(files, f) = 3
          /\ Len(files[f].json.failure_history) = 1
          /\ files[f].json.failure_history[1].occurrence_count = 2
          /\ files[f].json.failure_history[1].last_seen = now
          /\ Newest(files[f].json.failure_history[1]).timestamp < now

(***************************************************************************)
(* C5  recent_occurrences has at most 10 entries and holds the             *)
(* min(occurrence_count, 10) most recently appended occurrences in         *)
(* insertion order: an occurrence appended to a full list evicts the       *)
(* oldest one.                                                             *)
(***************************************************************************)
Timestamps(r) == [i \in 1..Len(r.recent_occurrences) |-> r.recent_occurrences[i].timestamp]

C5_Shape ==
    \A f \in Documents : \A i \in 1..Len(files[f].json.failure_history) :
        LET r == files[f].json.failure_history[i]
            n == Len(r.recent_occurrences)
        IN  /\ n <= MaxRecent
            /\ n = (IF r.occurrence_count <= MaxRecent THEN r.occurrence_count ELSE MaxRecent)
            /\ \A j \in 1..(n - 1) : Timestamps(r)[j] < Timestamps(r)[j + 1]

C5_Step ==
    \A f \in Documents \cap Documents' :
        \A x \in {files[f].json.failure_history[i].failure_id :
                     i \in 1..Len(files[f].json.failure_history)} :
            LET r  == RecordOf(files[f].json, x)
                r2 == RecordOf(files'[f].json, x)
                ts == Timestamps(r)
            IN  /\ RecordsOf(files'[f].json, x) # {}
                /\ \/ /\ r2.occurrence_count = r.occurrence_count
                       /\ Timestamps(r2) = ts
                   \/ /\ r2.occurrence_count = r.occurrence_count + 1
                       /\ Timestamps(r2)
                             = IF Len(ts) < MaxRecent THEN Append(ts, now')
                               ELSE Append(Tail(ts), now')

C5_RecentOccurrences == [](C5_Shape) /\ [][C5_Step]_vars

\* a record that has evicted at least two occurrences
C5_Witness ==
    \E f \in Documents :
        LET r == files[f].json.failure_history[1]
        IN  /\ r.occurrence_count >= MaxRecent + 2
            /\ Len(r.recent_occurrences) = MaxRecent
            /\ r.recent_occurrences[1].timestamp > r.first_seen
            /\ Newest(r).timestamp = now

(***************************************************************************)
(* C6  failure_id is a primary key inside a document: no failure_history   *)
(* holds two records with the same failure_id, and the id save_failure     *)
(* returns is the digest of testCase ":" error, whatever the state, and    *)
(* the key of exactly one record of the document it wrote.                 *)
(***************************************************************************)
C6_PrimaryKey ==
    /\ \A f \in Documents :
          \A i, j \in 1..Len(files[f].json.failure_history) :
              i # j => files[f].json.failure_history[i].failure_id
                         # files[f].json.failure_history[j].failure_id
    /\ last.op = "save_failure" =>
          LET o == last.failure_data
          IN  /\ last.failure_id = md5_hexdigest_12(ObsTestCase(o) \o <<":">> \o ObsError(o))
              /\ ObsFile(o) \in Documents
              /\ Cardinality(RecordsOf(files[ObsFile(o)].json, last.failure_id)) = 1

\* a failure id met again in a document that holds another record as well
C6_Witness ==
    /\ last.op = "save_failure"
    /\ last.found
    /\ LET d == files[ObsFile(last.failure_data)].json
       IN  /\ Len(d.failure_history) = 2
           /\ RecordOf(d, last.failure_id).first_seen < now

(***************************************************************************)
(* C7  failure_history is ordered by time of most recent activity, newest  *)
(* first: after save_failure index 0 is the record the call touched, and   *)
(* update_failure_bug_status leaves the order as it is.                    *)
(***************************************************************************)
Activity(r) == IF "last_seen" \in DOMAIN r THEN r.last_seen ELSE r.first_seen

IdsInOrder(d) == [i \in 1..Len(d.failure_history) |-> d.failure_history[i].failure_id]

C7_Sorted ==
    /\ \A f \in Documents :
          \A i, j \in 1..Len(files[f].json.failure_history) :
              i < j => Activity(files[f].json.failure_history[i])
                         > Activity(files[f].json.failure_history[j])
    /\ last.op = "save_failure" =>
          LET d == files[ObsFile(last.failure_data)].json
          IN  /\ d.failure_history[1].failure_id = last.failure_id
              /\ Activity(d.failure_history[1]) = now

C7_UpdateKeepsOrder ==
    UpdatedNow =>
        \A f \in Documents \cap Documents' :
            /\ IdsInOrder(files'[f].json) = IdsInOrder(files[f].json)
            /\ \A i \in 1..Len(files[f].json.failure_history) :
                  Activity(files'[f].json.failure_history[i])
                    = Activity(files[f].json.failure_history[i])

C7_RecencyOrder == [](C7_Sorted) /\ [][C7_UpdateKeepsOrder]_vars

\* the older of two records moved to index 0 by a later observation
C7_Witness ==
    /\ last.op = "save_failure"
    /\ LET d == files[ObsFile(last.failure_data)].json
       IN  /\ Len(d.failure_history) = 2
           /\ d.failure_history[1].first_seen < d.failure_history[2].first_seen
           /\ d.failure_history[1].failure_id = last.failure_id

(***************************************************************************)
(* C8  Read-your-writes end to end: save_failure(obs) twice in a row,      *)
(* returning X both times, then update_failure_bug_status(obs.testCase,    *)
(* true, "confirmed", 0).                                                  *)
(***************************************************************************)
E2EStep ==
    /\ last.op = "save_failure"
    /\ last.rep = 2
    /\ UpdatedNow
    /\ last'.test_case_name = ObsTestCase(last.failure_data)
    /\ last'.is_bug
    /\ last'.tester_notes = "confirmed"
    /\ last'.failure_index = 0

\* what the scenario guarantees apart from the number of notes: the read
\* after the saves returns a document holding X, the update returns true
\* and changes the record X alone, whose newest occurrence has isBug true
E2ETargetsX(d, d2, x) ==
    /\ d # <<>>
    /\ Cardinality(RecordsOf(d, x)) = 1
    /\ last'.result = "True"
    /\ d2 # <<>>
    /\ Cardinality(RecordsOf(d2, x)) = 1
    /\ Newest(RecordOf(d2, x)).isBug = "true"
    /\ Newest(RecordOf(d2, x)).timestamp = Newest(RecordOf(d, x)).timestamp
    /\ Len(d2.failure_history) = Len(d.failure_history)
    /\ \A i \in 1..Len(d.failure_history) :
          d.failure_history[i].failure_id # x
            => d2.failure_history[i] = d.failure_history[i]

\* C8 as claimed: the newest occurrence of X then has exactly one note.
C8_ExactlyOneNote ==
    [][ E2EStep =>
        LET tc == ObsTestCase(last.failure_data)
            d  == get_testcase_history(files, tc)
            d2 == get_testcase_history(files', tc)
        IN  /\ E2ETargetsX(d, d2, last.failure_id)
            /\ Len(Newest(RecordOf(d2, last.failure_id)).tester_notes) = 1
      ]_vars

\* C8 as amended: the newest occurrence of X then has exactly one note more
\* than before the update, the note "confirmed" classified "bug" as its
\* last; that is exactly one note when the occurrence had none.
C8_ReadYourWrites ==
    [][ E2EStep =>
        LET tc == ObsTestCase(last.failure_data)
            d  == get_testcase_history(files, tc)
            d2 == get_testcase_history(files', tc)
        IN  /\ E2ETargetsX(d, d2, last.failure_id)
            /\ LET before == Newest(RecordOf(d, last.failure_id)).tester_notes
                   after  == Newest(RecordOf(d2, last.failure_id)).tester_notes
               IN  /\ Len(after) = Len(before) + 1
                   /\ SubSeq(after, 1, Len(before)) = before
                   /\ after[Len(after)].note = "confirmed"
                   /\ after[Len(after)].classification = "bug"
      ]_vars

\* the scenario run on a record whose newest occurrence had a note already,
\* in a document that holds a second record
C8_Witness ==
    /\ last.op = "update_failure_bug_status"
    /\ last.result = "True"
    /\ last.streak = 2
    /\ LET d == get_testcase_history(files, last.test_case_name)
       IN  /\ d # <<>>
           /\ Len(d.failure_history) = 2
           /\ d.failure_history[1].failure_id = last.saved
           /\ Newest(d.failure_history[1]).isBug = "true"
           /\ Len(Newest(d.failure_history[1]).tester_notes) = 2

(***************************************************************************)
(* C9  update_failure_bug_status returns false and leaves every stored     *)
(* document unchanged whenever no document matches the test-case name,     *)
(* the matched document's failure_history is empty, or failureIndex is an  *)
(* integer outside 0 .. len(failure_history)-1.                            *)
(***************************************************************************)
C9_RejectsBadIndex ==
    [][ UpdatedNow =>
        LET name == last'.test_case_name
            f    == ResolveFile(files, name)
        IN  ( \/ f = <<>>
              \/ ~ files[f].valid
              \/ files[f].json.failure_history = <<>>
              \/ last'.failure_index \notin 0..(Len(files[f].json.failure_history) - 1) )
            => (last'.result = "False" /\ files' = files)
      ]_vars

(***************************************************************************)
(* C10  Whenever update_failure_bug_status(name, isBug, notes, i) returns  *)
(* true, the most recent occurrence of the failure record at index i (a    *)
(* negative i counted from the end, as the code reads it) has isBug equal  *)
(* to the given value; non-empty notes are appended to that occurrence's   *)
(* tester_notes as one note with that text, classified "bug" or            *)
(* "not_bug"; with empty notes tester_notes is unchanged.                  *)
(***************************************************************************)
C10_UpdateEffect ==
    [][ (UpdatedNow /\ last'.result = "True") =>
        LET f  == ResolveFile(files, last'.test_case_name)
            h  == files[f].json.failure_history
            h2 == files'[f].json.failure_history
            i  == IF last'.failure_index >= 0 THEN last'.failure_index + 1
                  ELSE Len(h) + last'.failure_index + 1
            o  == Newest(h[i])
            o2 == Newest(h2[i])
        IN  /\ i \in 1..Len(h)
            /\ Len(h2) = Len(h)
            /\ h2[i].failure_id = h[i].failure_id
            /\ Len(h2[i].recent_occurrences) = Len(h[i].recent_occurrences)
            /\ o2.timestamp = o.timestamp
            /\ \A k \in 1..Len(h2[i].recent_occurrences) :
                  h2[i].recent_occurrences[k].timestamp <= o2.timestamp
            /\ o2.isBug = (IF last'.is_bug THEN "true" ELSE "false")
            /\ IF last'.tester_notes # ""
               THEN /\ Len(o2.tester_notes) = Len(o.tester_notes) + 1
                    /\ SubSeq(o2.tester_notes, 1, Len(o.tester_notes)) = o.tester_notes
                    /\ o2.tester_notes[Len(o2.tester_notes)].note = last'.tester_notes
                    /\ o2.tester_notes[Len(o2.tester_notes)].classification
                          = (IF last'.is_bug THEN "bug" ELSE "not_bug")
               ELSE o2.tester_notes = o.tester_notes
      ]_vars

\* a record with two occurrences whose newer one was classified not-bug
\* with a note, the older one left pending
C10_Witness ==
    /\ last.op = "update_failure_bug_status"
    /\ last.result = "True"
    /\ ~ last.is_bug
    /\ last.tester_notes # ""
    /\ LET d == get_testcase_history(files, last.test_case_name)
       IN  /\ d # <<>>
           /\ \E i \in 1..Len(d.failure_history) :
                 LET occ == d.failure_history[i].recent_occurrences
                 IN  /\ Len(occ) = 2
                     /\ occ[1].isBug = "null"
                     /\ occ[2].isBug = "false"
                     /\ Len(occ[2].tester_notes) = 1
                     /\ occ[2].tester_notes[1].classification = "not_bug"

(***************************************************************************)
(* C11  Tester notes across later save_failure and                         *)
(* update_failure_bug_status calls.                                        *)
(***************************************************************************)
RECURSIVE NotesOfOccurrences(_)
NotesOfOccurrences(recent) ==
    IF recent = <<>> THEN <<>>
    ELSE Get(Head(recent), "tester_notes", <<>>) \o NotesOfOccurrences(Tail(recent))

\* the notes of a failure record, oldest occurrence first
RecordNotes(r) == NotesOfOccurrences(r.recent_occurrences)

FailureIds(d) == {d.failure_history[i].failure_id : i \in 1..Len(d.failure_history)}

SimilarQueries ==
    {<<<<"t">>, <<>>>>,
     <<<<"z">>, <<"e">>>>,
     <<<<"z">>, <<"x", " ", "y", " ", "z", " ", "e">>>>,
     <<<<"2">>, <<"q">>>>}

\* the error texts stored for a failure record: those of its occurrences
StoredErrors(r) ==
    {r.recent_occurrences[k].error : k \in 1..Len(r.recent_occurrences)}

C12_Tokens(error) ==
    LET words == split(lower(error))
    IN  {words[k] : k \in 1..Len(words)} \ {words[k] : k \in 4..Len(words)}

C12_Expected(test_case, error) ==
    UNION {
        {[testCase |-> files[f].json.testCase, failure |-> files[f].json.failure_history[i]] :
            i \in {j \in 1..Len(files[f].json.failure_history) :
                     \/ In(lower(test_case), lower(files[f].json.testCase))
                     \/ \E kw \in C12_Tokens(error),
                           e \in StoredErrors(files[f].json.failure_history[j]) :
                           In(kw, lower(e))}}
        : f \in Documents}

C12_FindSimilar ==
    \A q \in SimilarQueries, order \in DirectoryOrders(files) :
        LET res == find_similar_failures(files, order, q[1], q[2])
        IN  /\ ~ res.raised
            /\ {res.value[k] : k \in 1..Len(res.value)} = C12_Expected(q[1], q[2])
            /\ Len(res.value) = Cardinality(C12_Expected(q[1], q[2]))
            /\ \A k \in 1..(Len(res.value) - 1) :
                  res.value[k].failure.occurrence_count
                    >= res.value[k + 1].failure.occurrence_count

(***************************************************************************)
(* C13  get_bug_statistics counts every failure record exactly once, by    *)
(* the isBug flag of its most recent occurrence only: bugs + not_bugs +    *)
(* pending = total_failures = the number of failure records over all       *)
(* documents, and bug_classification_rate is (bugs + not_bugs) / total *   *)
(* 100, or 0 when there are no records.                                    *)
(***************************************************************************)
\* the failure records of the store whose most recent occurrence has the flag
RecordsFlagged(flags) ==
    {p \in UNION {{<<f, i>> : i \in 1..Len(files[f].json.failure_history)} :
                     f \in Documents} :
        Newest(files[p[1]].json.failure_history[p[2]]).isBug \in flags}

C13_BugStatistics ==
    \A order \in DirectoryOrders(files) :
        LET res   == get_bug_statistics(files, order)
            stats == res.value
            total == Cardinality(RecordsFlagged({"true", "false", "null"}))
        IN  /\ ~ res.raised
            /\ stats.total_failures = total
            /\ stats.classified_as_bugs = Cardinality(RecordsFlagged({"true"}))
            /\ stats.classified_as_not_bugs = Cardinality(RecordsFlagged({"false"}))
            /\ stats.pending_classification = Cardinality(RecordsFlagged({"null"}))
            /\ stats.classified_as_bugs + stats.classified_as_not_bugs
                 + stats.pending_classification = stats.total_failures
            /\ IF total = 0
               THEN stats.bug_classification_rate.num = 0
               ELSE stats.bug_classification_rate.num * total
                      = (stats.classified_as_bugs + stats.classified_as_not_bugs) * 100
                          * stats.bug_classification_rate.den

\* a record classified as a bug that has met a new occurrence since: it is
\* counted as pending
C13_Witness ==
    /\ last.op = "save_failure"
    /\ \E f \in Documents :
          LET r == files[f].json.failure_history[1]
          IN  /\ Len(r.recent_occurrences) = 2
              /\ r.recent_occurrences[1].isBug = "true"
              /\ Newest(r).isBug = "null"
    /\ \A order \in DirectoryOrders(files) :
          /\ get_bug_statistics(files, order).value.pending_classification = 1
          /\ get_bug_statistics(files, order).value.classified_as_bugs = 0

(***************************************************************************)
(* C14  most_common_errors of get_failure_stats maps each distinct first   *)
(* line of error text (cut to 100 characters) of the stored failures to    *)
(* the sum of occurrence_count over the failure records with that error    *)
(* line, the 5 largest kept: two stored failures with different error      *)
(* first lines appear under two different keys.                            *)
(***************************************************************************)
\* the failure records of the store, as <<file, index>>
StoredRecords ==
    UNION {{<<f, i>> : i \in 1..Len(files[f].json.failure_history)} : f \in Documents}

\* the error line of a stored failure: that of its most recent occurrence
ErrorLine(p) ==
    FirstN(FirstLine(Newest(files[p[1]].json.failure_history[p[2]]).error), MaxErrorKey)

RECURSIVE SumOfCounts(_)
SumOfCounts(records) ==
    IF records = {} THEN 0
    ELSE LET p == CHOOSE q \in records : TRUE
         IN  files[p[1]].json.failure_history[p[2]].occurrence_count
               + SumOfCounts(records \ {p})

C14_MostCommonErrors ==
    \A order \in DirectoryOrders(files) :
        LET res    == get_failure_stats(files, order)
            errors == res.value.most_common_errors
            lines  == {ErrorLine(p) : p \in StoredRecords}
        IN  /\ ~ res.raised
            /\ Cardinality(lines) <= TopErrors =>
                  /\ Len(errors) = Cardinality(lines)
                  /\ {<<errors[k].key, errors[k].value>> : k \in 1..Len(errors)}
                       = {<<line, SumOfCounts({p \in StoredRecords : ErrorLine(p) = line})>> :
                             line \in lines}

(***************************************************************************)
(* C15  cleanup_old_failures(daysOld) removes a test-case document if and  *)
(* only if its last write, by save_failure or update_failure_bug_status,   *)
(* is older than daysOld days, leaves every other test-case document as    *)
(* it is, and returns the number of test-case documents it removed.        *)
(***************************************************************************)
CleanedNow == last'.op = "cleanup_old_failures" /\ nops' = nops + 1

\* the time of the last write of a document, read off the document: the
\* last save_failure left last_updated, the updates left bug_status_updated
WriteTimes(d) ==
    {d.last_updated}
      \cup UNION {{Get(d.failure_history[i].recent_occurrences[k], "bug_status_updated", 0) :
                      k \in 1..Len(d.failure_history[i].recent_occurrences)} :
                  i \in 1..Len(d.failure_history)}

LastWrite(d) == CHOOSE t \in WriteTimes(d) : \A u \in WriteTimes(d) : u <= t

C15_RemovesOldDocuments ==
    [][ CleanedNow =>
        LET age == last'.days_old * SecondsPerDay
        IN  /\ \A f \in DOMAIN files :
                  f \notin DOMAIN files' <=> now' - LastWrite(files[f].json) > age
            /\ \A f \in DOMAIN files' : f \in DOMAIN files /\ files'[f] = files[f]
            /\ last'.result = Cardinality(DOMAIN files \ DOMAIN files')
      ]_vars

\* a cleanup with daysOld = 1 that removed one document and kept another
\* whose last write, an update, was exactly one day before
C15_Witness ==
    /\ last.op = "cleanup_old_failures"
    /\ last.days_old = 1
    /\ last.result = 1
    /\ \E f \in Documents :
          /\ now - LastWrite(files[f].json) = SecondsPerDay
          /\ files[f].json.last_updated < LastWrite(files[f].json)

(***************************************************************************)
(* C16  cleanup_old_failures(daysOld) deletes every analysis record older  *)
(* than the cutoff, those save_project_analysis wrote into a per-project   *)
(* subdirectory included: after the call no analysis record older than     *)
(* the cutoff remains anywhere under the analysis directory.               *)
(***************************************************************************)
C16_RemovesOldAnalysis ==
    [][ CleanedNow =>
        \A p \in DOMAIN analysis' :
            ~ (now' - analysis'[p].mtime > last'.days_old * SecondsPerDay)
      ]_vars

(***************************************************************************)
(* C17  cleanup_knowledge_db_fully never aborts on a deletion error: every *)
(* item whose deletion does not fail is removed, each failure is listed in *)
(* errors with success = false, and the reported testcases_removed and     *)
(* analysis_files_removed are the numbers of records actually removed;     *)
(* when no deletion fails the store is empty afterwards and a following    *)
(* save_failure creates a fresh document with total_failures = 1.          *)
(***************************************************************************)
FullyCleanedNow == last'.op = "cleanup_knowledge_db_fully" /\ nops' = nops + 1

C17_FullCleanup ==
    [][ /\ FullyCleanedNow =>
              /\ DOMAIN files' \subseteq DOMAIN files
              /\ DOMAIN analysis' \subseteq DOMAIN analysis
              /\ DOMAIN files' = last'.errors.testcase_files
              /\ DOMAIN analysis' = last'.errors.analysis_files
              /\ last'.success <=> (DOMAIN files' = {} /\ DOMAIN analysis' = {})
              /\ last'.testcases_removed = Cardinality(DOMAIN files \ DOMAIN files')
              /\ last'.analysis_files_removed
                    = Cardinality(DOMAIN analysis \ DOMAIN analysis')
              /\ last'.success =>
                    \A n \in Names \cup {T1c} : get_testcase_history(files', n) = <<>>
        /\ (last.op = "cleanup_knowledge_db_fully" /\ last.success /\ SavedNow) =>
              LET d == get_testcase_history(files', ObsTestCase(last'.failure_data))
              IN  d # <<>> /\ d.total_failures = 1
      ]_vars

(***************************************************************************)
(* C18  Every bulk scan (find_similar_failures, get_failure_stats,         *)
(* get_bug_statistics, get_failure_history and the fallback scan of        *)
(* update_failure_bug_status) continues past a corrupt or unreadable       *)
(* test-case file: it raises no error and returns its normal result,       *)
(* computed over the remaining documents.                                  *)
(***************************************************************************)
\* the remaining documents
Readable == [f \in Documents |-> files[f]]

C18_ScansSkipBadFiles ==
    \A order \in DirectoryOrders(files) :
        LET rest == SelectSeq(order, LAMBDA f : f \in Documents)
        IN  /\ \A q \in SimilarQueries :
                  find_similar_failures(files, order, q[1], q[2])
                    = find_similar_failures(Readable, rest, q[1], q[2])
            /\ ~ get_failure_stats(files, order).raised
            /\ get_failure_stats(files, order).value.total_failures
                 = get_failure_stats(Readable, rest).value.total_failures
            /\ get_bug_statistics(files, order) = get_bug_statistics(Readable, rest)
            /\ \A o \in IOObservations :
                  get_failure_history(files, order,
                                      _generate_failure_id(ObsTestCase(o), ObsError(o)))
                    = get_failure_history(Readable, rest,
                                          _generate_failure_id(ObsTestCase(o), ObsError(o)))
            /\ \A n \in Names :
                  _generate_testcase_filename(n) \notin DOMAIN files
                    => ResolveFile(files, n) = ResolveFile(Readable, n)

(***************************************************************************)
(* C19  A corrupt or unreadable test-case file behaves like an absent one: *)
(* get_testcase_history returns no document, update_failure_bug_status     *)
(* returns false and changes nothing, and save_failure proceeds from an    *)
(* empty shell, so that the document it persists has total_failures = 1,   *)
(* unique_errors = 1 and a single failure record with occurrence_count 1.  *)
(***************************************************************************)
\* the file of the name is there and corrupt
Corrupt(fs, test_case) ==
    /\ _generate_testcase_filename(test_case) \in DOMAIN fs
    /\ ~ fs[_generate_testcase_filename(test_case)].valid

C19_Reads ==
    \A n \in Names :
        /\ Corrupt(files, n) => get_testcase_history(files, n) = <<>>
        /\ get_testcase_history_io(files, n, "error") = <<>>

C19_Writes ==
    /\ UpdatedNow =>
          ( (Corrupt(files, last'.test_case_name) \/ last'.rd = "error")
              => (last'.result = "False" /\ files' = files) )
    /\ (SavedNow /\ last'.wr = "ok") =>
          LET o == last'.failure_data
          IN  ( /\ ObsFile(o) \in DOMAIN files
                /\ (Corrupt(files, ObsTestCase(o)) \/ last'.rd = "error") )
              => /\ ObsFile(o) \in Documents'
                 /\ LET d == files'[ObsFile(o)].json
                    IN  /\ d.testCase = ObsTestCase(o)
                        /\ d.created = now'
                        /\ d.total_failures = 1
                        /\ d.unique_errors = 1
                        /\ Len(d.failure_history) = 1
                        /\ d.failure_history[1].failure_id = last'.failure_id
                        /\ d.failure_history[1].occurrence_count = 1
                        /\ d.failure_history[1].first_seen = now'
                        /\ Len(d.failure_history[1].recent_occurrences) = 1

C19_BadFileAsAbsent == [](C19_Reads) /\ [][C19_Writes]_vars

\* a save_failure call that found a corrupt file, read it without an error
\* of open() and wrote a document that counts one failure
C19_Witness ==
    /\ last.op = "save_failure"
    /\ last.found
    /\ last.rd = "ok"
    /\ last.wr = "ok"
    /\ ObsFile(last.failure_data) \in Documents
    /\ files[ObsFile(last.failure_data)].json.total_failures = 1
    /\ files[ObsFile(last.failure_data)].json.created = now

(***************************************************************************)
(* C20  When the persist step of save_failure fails, the call raises no    *)
(* error and returns the failure id it returns on success, and the         *)
(* document persisted before for that test case is still what later reads  *)
(* observe.                                                                *)
(***************************************************************************)
C20_PersistFailureKeepsDocument ==
    [][ (SavedNow /\ last'.wr # "ok") =>
        LET o == last'.failure_data
        IN  /\ last'.failure_id = _generate_failure_id(ObsTestCase(o), ObsError(o))
            /\ get_testcase_history(files', ObsTestCase(o))
                 = get_testcase_history(files, ObsTestCase(o))
      ]_vars

(***************************************************************************)
(* C21  One document per distinct test-case name: observations with two    *)
(* different testCase texts are never merged into one document, so every   *)
(* failure record of a document stems from an observation whose testCase   *)
(* is the testCase of the document.                                        *)
(***************************************************************************)
\* the failure id of a record is the digest of testCase ":" error of the
\* observations recorded in it: the record stems from observations of the
\* document's test case when the id is that of the document's testCase and
\* the error of each of its occurrences
C21_OneDocumentPerName ==
    \A f \in Documents :
        \A i \in 1..Len(files[f].json.failure_history) :
            LET r == files[f].json.failure_history[i]
            IN  \A k \in 1..Len(r.recent_occurrences) :
                    r.failure_id
                      = md5_hexdigest_12(files[f].json.testCase \o <<":">>
                                           \o r.recent_occurrences[k].error)

(***************************************************************************)
(* C22  Lost update under concurrent writers.  When the load and write     *)
(* steps of two save_failure calls for one test case interleave, a state   *)
(* is reachable in which both calls have returned and the document         *)
(* reflects one of them only; as long as no call has started while another *)
(* was between its load and its write, the document counts every call      *)
(* that has returned and holds a record for every failure id returned.     *)
(***************************************************************************)
C22_SingleWriterLosesNothing ==
    (last.op \in {"save_failure_load", "save_failure_write"} /\ ~ last.overlapped) =>
        IF last.returned = 0 THEN files = <<>>
        ELSE LET d == get_testcase_history(files, T1)
             IN  /\ d # <<>>
                 /\ d.total_failures = last.returned
                 /\ FailureIds(d) = last.ids
                 /\ d.unique_errors = Cardinality(last.ids)

\* both calls have returned, with two failure ids, and the document counts
\* one failure and holds one record
C22_Witness ==
    /\ last.op = "save_failure_write"
    /\ last.overlapped
    /\ last.returned = 2
    /\ Cardinality(last.ids) = 2
    /\ DOMAIN inflight = {}
    /\ LET d == get_testcase_history(files, T1)
       IN  /\ d # <<>>
           /\ d.total_failures = 1
           /\ Len(d.failure_history) = 1

(***************************************************************************)
(* C23  Every operation that persists a test-case document,                *)
(* update_failure_bug_status as well as save_failure, sets last_updated of *)
(* the document to the time of that operation.                             *)
(***************************************************************************)
C23_PersistRefreshesLastUpdated ==
    [][ /\ (SavedNow /\ last'.wr = "ok") =>
              /\ ObsFile(last'.failure_data) \in Documents'
              /\ files'[ObsFile(last'.failure_data)].json.last_updated = now'
        /\ (UpdatedNow /\ last'.result = "True") =>
              LET f == ResolveFile(files, last'.test_case_name)
              IN  /\ f \in Documents'
                  /\ files'[f].json.last_updated = now'
      ]_vars

(***************************************************************************)
(* C24  After update_failure_bug_status(name, isBug, notes, i) with        *)
(* non-empty notes has returned true, get_testcase_tester_notes(name)      *)
(* lists that note (total_notes >= 1, the failure is in                    *)
(* failures_with_notes) and counts the failure under bugs or not_bugs      *)
(* according to isBug, not under pending.                                  *)
(***************************************************************************)
C24_NotesReported ==
    ( /\ last.op = "update_failure_bug_status"
      /\ last.result = "True"
      /\ last.tester_notes # "" )
    => LET res == get_testcase_tester_notes(files, last.test_case_name)
           d   == get_testcase_history(files, last.test_case_name)
           x   == d.failure_history[PyIndex(d.failure_history, last.failure_index)].failure_id
       IN  /\ res.success
           /\ res.tester_activity.total_notes >= 1
           /\ \E k \in 1..Len(res.failures_with_notes) :
                 /\ res.failures_with_notes[k].failure_id = x
                 /\ \E j \in 1..Len(res.failures_with_notes[k].tester_notes) :
                       res.failures_with_notes[k].tester_notes[j].note = last.tester_notes
           /\ IF last.is_bug
              THEN res.tester_activity.bug_classifications.bugs >= 1
              ELSE res.tester_activity.bug_classifications.not_bugs >= 1

(***************************************************************************)
(* C25  When save_failure meets a failure id not yet in the document, the  *)
(* failure record it appends has occurrence_count = 1, first_seen and      *)
(* last_seen both set to the time of the call, and exactly one occurrence  *)
(* with isBug null and no tester notes; unique_errors grows by exactly 1.  *)
(***************************************************************************)
C25_NewRecord ==
    [][ SavedNow =>
        LET o  == last'.failure_data
            x  == last'.failure_id
            d  == get_testcase_history(files, ObsTestCase(o))
            d2 == get_testcase_history(files', ObsTestCase(o))
        IN  (d = <<>> \/ RecordsOf(d, x) = {})
            => /\ d2 # <<>>
               /\ Cardinality(RecordsOf(d2, x)) = 1
               /\ d2.unique_errors = (IF d = <<>> THEN 0 ELSE d.unique_errors) + 1
               /\ LET r == RecordOf(d2, x)
                  IN  /\ r.occurrence_count = 1
                      /\ r.first_seen = now'
                      /\ "last_seen" \in DOMAIN r
                      /\ r.last_seen = now'
                      /\ Len(r.recent_occurrences) = 1
                      /\ r.recent_occurrences[1].isBug = "null"
                      /\ r.recent_occurrences[1].tester_notes = <<>>
      ]_vars


(***************************************************************************)
(* C26  A duplicate-window save_failure changes, in the record it matches, *)
(* only last_seen: recent_occurrences (every isBug flag and tester note),  *)
(* occurrence_count and first_seen stay, every other record of the         *)
(* document stays, and unique_errors stays.                                *)
(***************************************************************************)
\* the save just made met record x of document d inside the dedup window
InDuplicateWindow(d, x, o, t) ==
    /\ d # <<>>
    /\ RecordsOf(d, x) # {}
    /\ LET latest == Newest(RecordOf(d, x))
       IN  /\ t - latest.timestamp < DedupWindow
           /\ latest.error = ObsError(o)
           /\ latest.stackTrace = ObsStack(o)

OtherRecords(d, x) ==
    {d.failure_history[i] : i \in (1..Len(d.failure_history)) \ RecordsOf(d, x)}

C26_DuplicateTouchesLastSeenOnly ==
    [][ SavedNow =>
        LET o  == last'.failure_data
            x  == last'.failure_id
            d  == get_testcase_history(files, ObsTestCase(o))
            d2 == get_testcase_history(files', ObsTestCase(o))
        IN  InDuplicateWindow(d, x, o, now')
            => /\ d2 # <<>>
               /\ Cardinality(RecordsOf(d2, x)) = 1
               /\ LET r == RecordOf(d, x)
                      r2 == RecordOf(d2, x)
                  IN  /\ r2.last_seen = now'
                      /\ DOMAIN r2 = DOMAIN r \cup {"last_seen"}
                      /\ \A k \in DOMAIN r : k # "last_seen" => r2[k] = r[k]
               /\ Len(d2.failure_history) = Len(d.failure_history)
               /\ OtherRecords(d2, x) = OtherRecords(d, x)
               /\ d2.unique_errors = d.unique_errors
      ]_vars

\* a duplicate has just been saved on a record whose latest occurrence is
\* classified and carries a note
C26_Witness ==
    /\ last.op = "save_failure"
    /\ last.found
    /\ LET r == RecordOf(files[ObsFile(last.failure_data)].json, last.failure_id)
       IN  /\ "last_seen" \in DOMAIN r
           /\ r.last_seen = now
           /\ Newest(r).timestamp < now
           /\ Newest(r).isBug # "null"
           /\ Newest(r).tester_notes # <<>>


(***************************************************************************)
(* C27  The dedup window is anchored at the timestamp of the latest        *)
(* recorded occurrence and not at last_seen: in a stream of identical      *)
(* observations, each less than 5 minutes after the previous one, an       *)
(* observation is recorded as a new occurrence exactly when 300 seconds or *)
(* more have passed since the latest recorded occurrence, so duplicates do *)
(* not extend the window and occurrence_count keeps growing.               *)
(***************************************************************************)
StreamRecord(fs) ==
    RecordOf(fs[ObsFile(StreamObservation)].json,
             md5_hexdigest_12(T1 \o <<":">> \o E))

\* the most duplicates that fit between two recorded occurrences
MaxDuplicatesInARow ==
    LET least == CHOOSE g \in StreamGaps : \A h \in StreamGaps : g <= h
    IN  (DedupWindow - 1) \div least

C27_Growing ==
    nops > 0 =>
        LET r == StreamRecord(files)
        IN  /\ now - Newest(r).timestamp < DedupWindow
            /\ nops <= r.occurrence_count * (1 + MaxDuplicatesInARow)

C27_Step ==
    (SavedNow /\ nops > 0) =>
        LET r  == StreamRecord(files)
            r2 == StreamRecord(files')
        IN  /\ now' - now < DedupWindow
            /\ IF now' - Newest(r).timestamp >= DedupWindow
               THEN /\ r2.occurrence_count = r.occurrence_count + 1
                    /\ Newest(r2).timestamp = now'
                    /\ Len(r2.recent_occurrences)
                         = Min(Len(r.recent_occurrences) + 1, MaxRecent)
               ELSE /\ r2.occurrence_count = r.occurrence_count
                    /\ r2.recent_occurrences = r.recent_occurrences

C27_WindowAnchoredAtOccurrence == [](C27_Growing) /\ [][C27_Step]_vars

\* a third occurrence has just been recorded although no observation of the
\* stream came 300 seconds or more after the one before it
C27_Witness ==
    /\ nops > 0
    /\ last.op = "save_failure"
    /\ LET r == StreamRecord(files)
       IN  /\ r.occurrence_count >= 3
           /\ Newest(r).timestamp = now
           /\ nops > r.occurrence_count


(***************************************************************************)
(* C28  A manual classification does not survive a new occurrence: once    *)
(* update_failure_bug_status has classified a record, the next             *)
(* non-duplicate save_failure for that failure identity makes              *)
(* get_bug_statistics count the record as pending again (the classified    *)
(* occurrence keeps its isBug and notes but is no longer the most recent), *)
(* whereas a duplicate-window save keeps the record counted as classified. *)
(***************************************************************************)
Counts(stats) ==
    [bugs     |-> stats.classified_as_bugs,
     not_bugs |-> stats.classified_as_not_bugs,
     pending  |-> stats.pending_classification]

C28_ClassificationLostOnNewOccurrence ==
    [][ SavedNow =>
        LET o  == last'.failure_data
            x  == last'.failure_id
            d  == get_testcase_history(files, ObsTestCase(o))
            d2 == get_testcase_history(files', ObsTestCase(o))
        IN  (/\ d # <<>>
             /\ RecordsOf(d, x) # {}
             /\ Newest(RecordOf(d, x)).isBug \in {"true", "false"})
            => LET r      == RecordOf(d, x)
                   r2     == RecordOf(d2, x)
                   n      == Len(r2.recent_occurrences)
                   is_bug == Newest(r).isBug
               IN  \A order \in DirectoryOrders(files), order2 \in DirectoryOrders(files') :
                      LET before == Counts(get_bug_statistics(files, order).value)
                          after  == Counts(get_bug_statistics(files', order2).value)
                      IN  IF InDuplicateWindow(d, x, o, now')
                          THEN /\ after = before
                               /\ Newest(r2) = Newest(r)
                          ELSE /\ after.pending = before.pending + 1
                               /\ after.bugs = before.bugs - (IF is_bug = "true" THEN 1 ELSE 0)
                               /\ after.not_bugs = before.not_bugs - (IF is_bug = "false" THEN 1 ELSE 0)
                               /\ n >= 2
                               /\ r2.recent_occurrences[n - 1] = Newest(r)
                               /\ Newest(r2).isBug = "null"
      ]_vars

\* a record classified as not a bug, with a note, has just met a new
\* occurrence: the classified occurrence is the one before the newest
C28_Witness ==
    /\ last.op = "save_failure"
    /\ last.found
    /\ LET r == RecordOf(files[ObsFile(last.failure_data)].json, last.failure_id)
           n == Len(r.recent_occurrences)
       IN  /\ n = 2
           /\ r.recent_occurrences[1].isBug = "false"
           /\ r.recent_occurrences[1].tester_notes # <<>>
           /\ r.recent_occurrences[2].isBug = "null"
           /\ r.recent_occurrences[2].timestamp = now


(***************************************************************************)
(* C29  In every document built by save_failure and                        *)
(* update_failure_bug_status calls with no load failure, total_failures is *)
(* at least the sum of occurrence_count over its failure_history, and the  *)
(* difference is the number of duplicate-window observations processed for *)
(* that document: it starts at 0, grows by 1 with each duplicate-window    *)
(* save into the document and changes with no other call.                  *)
(***************************************************************************)
RECURSIVE SumOccurrenceCounts(_)
SumOccurrenceCounts(failure_history) ==
    IF failure_history = <<>> THEN 0
    ELSE Head(failure_history).occurrence_count
           + SumOccurrenceCounts(Tail(failure_history))

\* observations counted in total_failures and in no occurrence_count; a
\* document not yet written has counted none
Uncounted(fs, f) ==
    IF f \in DOMAIN fs
    THEN fs[f].json.total_failures - SumOccurrenceCounts(fs[f].json.failure_history)
    ELSE 0

C29_AtLeastSum == \A f \in Documents : Uncounted(files, f) >= 0

C29_Step ==
    /\ SavedNow =>
          LET o == last'.failure_data
              d == get_testcase_history(files, ObsTestCase(o))
          IN  \A f \in DOMAIN files' :
                 Uncounted(files', f)
                   = Uncounted(files, f)
                       + (IF f = ObsFile(o) /\ InDuplicateWindow(d, last'.failure_id, o, now')
                          THEN 1 ELSE 0)
    /\ UpdatedNow =>
          /\ DOMAIN files' = DOMAIN files
          /\ \A f \in DOMAIN files : Uncounted(files', f) = Uncounted(files, f)

C29_TotalCountsDuplicates == [](C29_AtLeastSum) /\ [][C29_Step]_vars

\* a document with two failure records in which one observation was a
\* duplicate
C29_Witness ==
    \E f \in Documents :
        /\ Len(files[f].json.failure_history) = 2
        /\ Uncounted(files, f) = 1
        /\ files[f].json.total_failures = 3


(***************************************************************************)
(* C30  One run of process_and_save_all_failures records each fetched      *)
(* failure observation exactly once: the total_cases_saved it reports is   *)
(* the total increase of total_failures over all test-case documents that  *)
(* the run caused.                                                         *)
(***************************************************************************)
RECURSIVE SumTotalFailures(_, _)
SumTotalFailures(fs, docs) ==
    IF docs = {} THEN 0
    ELSE LET f == CHOOSE g \in docs : TRUE
         IN  fs[f].json.total_failures + SumTotalFailures(fs, docs \ {f})

TotalFailures(fs) == SumTotalFailures(fs, {f \in DOMAIN fs : fs[f].valid})

ProcessedNow == last'.op = "process_and_save_all_failures" /\ nops' = nops + 1

C30_EachObservationSavedOnce ==
    [][ ProcessedNow =>
        last'.total_cases_saved = TotalFailures(files') - TotalFailures(files) ]_vars

=============================================================================
